---- MODULE Spec2Model ----
(***************************************************************************)
(* WhatsApp ordering bot (extended variant): the /webhook conversation     *)
(* handler, its in-memory session maps and the Google-Sheets order store.   *)
(*                                                                         *)
(* A JavaScript string is a sequence of one-character strings, so that      *)
(* toLowerCase, trim, the regular expression test, split, parseInt and      *)
(* toString are computed as the code computes them.                         *)
(***************************************************************************)
EXTENDS Integers, Sequences, FiniteSets

VARIABLES
    userStates,   \* Map phone -> state                       (line 31)
    userCarts,    \* Map key -> cart | delivery type | address (line 30)
    orders,       \* data rows of the sheet "Pedidos" (below its header row)
    last,         \* the branch of the handler that served the last call
    failed,       \* whether the spreadsheet call of that call failed
    handlers,     \* the calls of the handler in progress, each at an await
    heap          \* the cart arrays that the map no longer holds

vars == <<userStates, userCarts, orders, last, failed, handlers, heap>>

----------------------------------------------------------------------------
(* Bounds of the model *)

\* largest quantity a cart line is allowed to reach
MaxQty == 2
\* largest number of data rows the sheet "Pedidos" is allowed to hold
MaxOrders == 1

----------------------------------------------------------------------------
(* STATES, lines 34-42 *)

MAIN_MENU == "main_menu"
BROWSING_PRODUCTS == "browsing_products"
CART_REVIEW == "cart_review"
DELIVERY_INFO == "delivery_info"
PAYMENT_METHOD == "payment_method"
PAYMENT_CONFIRMATION == "payment_confirmation"
CONFIRMING_ORDER == "confirming_order"

STATES == {MAIN_MENU, BROWSING_PRODUCTS, CART_REVIEW, DELIVERY_INFO,
           PAYMENT_METHOD, PAYMENT_CONFIRMATION, CONFIRMING_ORDER}

----------------------------------------------------------------------------
(* String primitives of the JavaScript runtime *)

Digits == {"0", "1", "2", "3", "4", "5", "6", "7", "8", "9"}

\* \s of a regular expression, and what trim() strips
IsSpace(c) == c \in {" ", "\t", "\n"}

\* String.prototype.toLowerCase on one character ("U'" stands for U-acute)
LowerOf(c) ==
    CASE c = "A" -> "a" [] c = "C" -> "c" [] c = "E" -> "e" [] c = "I" -> "i"
      [] c = "L" -> "l" [] c = "M" -> "m" [] c = "N" -> "n" [] c = "O" -> "o"
      [] c = "R" -> "r" [] c = "T" -> "t" [] c = "U" -> "u" [] c = "V" -> "v"
      [] c = "U'" -> "u'"
      [] OTHER -> c

ToLowerCase(s) == [i \in 1..Len(s) |-> LowerOf(s[i])]

RECURSIVE TrimStart(_)
TrimStart(s) ==
    IF s # <<>> /\ IsSpace(Head(s)) THEN TrimStart(Tail(s)) ELSE s

RECURSIVE TrimEnd(_)
TrimEnd(s) ==
    IF s # <<>> /\ IsSpace(s[Len(s)])
    THEN TrimEnd(SubSeq(s, 1, Len(s) - 1))
    ELSE s

Trim(s) == TrimEnd(TrimStart(s))

\* the separators of /[,\s]+/
IsSeparator(c) == c = "," \/ IsSpace(c)

\* message.split(/[,\s]+/): a maximal run of separators ends a token; a
\* leading or trailing run leaves an empty token
RECURSIVE SplitFrom(_, _, _, _, _)
SplitFrom(s, i, cur, acc, inSep) ==
    IF i > Len(s) THEN Append(acc, cur)
    ELSE IF IsSeparator(s[i])
         THEN IF inSep
              THEN SplitFrom(s, i + 1, cur, acc, TRUE)
              ELSE SplitFrom(s, i + 1, <<>>, Append(acc, cur), TRUE)
         ELSE SplitFrom(s, i + 1, Append(cur, s[i]), acc, FALSE)

Split(s) == SplitFrom(s, 1, <<>>, <<>>, FALSE)

DigitValue(c) ==
    CASE c = "0" -> 0 [] c = "1" -> 1 [] c = "2" -> 2 [] c = "3" -> 3
      [] c = "4" -> 4 [] c = "5" -> 5 [] c = "6" -> 6 [] c = "7" -> 7
      [] c = "8" -> 8 [] c = "9" -> 9

RECURSIVE DigitPrefix(_)
DigitPrefix(s) ==
    IF s # <<>> /\ Head(s) \in Digits
    THEN <<Head(s)>> \o DigitPrefix(Tail(s))
    ELSE <<>>

RECURSIVE DecimalValue(_)
DecimalValue(ds) ==
    IF ds = <<>> THEN 0
    ELSE 10 * DecimalValue(SubSeq(ds, 1, Len(ds) - 1)) + DigitValue(ds[Len(ds)])

\* parseInt(s): leading white space skipped, then the longest digit prefix;
\* NaN (here the empty sequence) when there is none, else <<number>>
NaN == <<>>
ParseInt(s) ==
    LET ds == DigitPrefix(TrimStart(s))
    IN  IF ds = <<>> THEN NaN ELSE <<DecimalValue(ds)>>

DigitChar(d) ==
    CASE d = 0 -> "0" [] d = 1 -> "1" [] d = 2 -> "2" [] d = 3 -> "3"
      [] d = 4 -> "4" [] d = 5 -> "5" [] d = 6 -> "6" [] d = 7 -> "7"
      [] d = 8 -> "8" [] d = 9 -> "9"

\* Number.prototype.toString of a non-negative integer
RECURSIVE ToString(_)
ToString(n) ==
    IF n < 10 THEN <<DigitChar(n)>>
    ELSE Append(ToString(n \div 10), DigitChar(n % 10))

----------------------------------------------------------------------------
(* Map: get, set, delete.  A key is <<phone, suffix>>, the concatenation    *)
(* phone + suffix of lines 417, 420, 447, 450, 452.                         *)

Key(phone, suffix) == <<phone, suffix>>

Has(map, k) == k \in DOMAIN map

MapSet(map, k, v) ==
    [x \in DOMAIN map \cup {k} |-> IF x = k THEN v ELSE map[x]]

MapDelete(map, k) == [x \in DOMAIN map \ {k} |-> map[x]]

EmptyMap == [x \in {} |-> 0]

\* map.get(k) || v, for the maps whose values are never falsy when present
\* or whose default is the falsy value itself
GetOr(map, k, v) == IF Has(map, k) THEN map[k] ELSE v

----------------------------------------------------------------------------
(* Inputs: what the sheet "Menu" may hold and what a webhook call may carry *)

Phones == {"whatsapp:+5491"}

\* a customer served by another process on the same spreadsheet
OtherPhone == "whatsapp:+5492"

\* data rows of the sheet "Menu": id, name, price, availability (columns A, B,
\* D, F; description and category are only rendered)
MenuRow(id, name, price, available) ==
    [id |-> id, name |-> name, price |-> price, available |-> available]

MenuSheets ==
    { <<MenuRow(<<"1">>, "Empanada", <<"1", "0">>, "TRUE"),
        MenuRow(<<"2">>, "Pizza", <<"2", "5">>, "TRUE")>>,
      <<MenuRow(<<"1">>, "Empanada", <<"1", "0">>, "FALSE"),
        MenuRow(<<"2">>, "Pizza", <<"2", "5">>, "TRUE")>>,
      <<>> }

\* what one call may meet at the spreadsheet: whether its Sheets call
\* returns, and the data rows of "Menu" if it reads them
Envs ==
    [ok : {TRUE}, rows : MenuSheets] \cup {[ok |-> FALSE, rows |-> <<>>]}

Bodies ==
    { <<>>,
      <<"m", "e", "n", "u">>,
      <<" ", "M", "e", "n", "u'", " ">>,
      <<"c", "a", "r", "r", "i", "t", "o">>,
      <<"l", "i", "m", "p", "i", "a", "r">>,
      <<"C", "a", "n", "c", "e", "l", "a", "r">>,
      <<"f", "i", "n", "a", "l", "i", "z", "a", "r">>,
      <<"1">>,
      <<"2">>,
      <<"3">>,
      <<"1", ",", "2", ",", "1">>,
      <<"A", "v", " ", "1">> }

\* the display names the calls carry
ProfileNames == {"Ana"}

\* MediaUrl0 and MediaContentType0 of the call ("" when the field is absent)
Media ==
    { [url |-> "", type |-> <<>>],
      [url |-> "https://media/0", type |-> <<"i", "m", "a", "g", "e", "/", "p", "n", "g">>],
      [url |-> "https://media/0", type |-> <<"a", "u", "d", "i", "o", "/", "o", "g", "g">>] }

NoMedia == [url |-> "", type |-> <<>>]

\* the texts sent along with a media file
Captions ==
    { <<>>,
      <<"l", "i", "m", "p", "i", "a", "r">>,
      <<"C", "a", "n", "c", "e", "l", "a", "r">>,
      <<"f", "i", "n", "a", "l", "i", "z", "a", "r">>,
      <<"1">> }

\* req.body of the calls to /webhook: text messages, and media with a caption
Requests ==
    { [Body |-> b, From |-> f, ProfileName |-> n,
       MediaUrl0 |-> m.url, MediaContentType0 |-> m.type] :
        b \in Bodies, f \in Phones, n \in ProfileNames, m \in {NoMedia} }
    \cup
    { [Body |-> b, From |-> f, ProfileName |-> n,
       MediaUrl0 |-> m.url, MediaContentType0 |-> m.type] :
        b \in Captions, f \in Phones, n \in ProfileNames, m \in Media \ {NoMedia} }

----------------------------------------------------------------------------
(* Gateways to the spreadsheet *)

\* parseFloat(row[3]) of a price cell written with digits only
ParseFloat(s) == DecimalValue(DigitPrefix(TrimStart(s)))

RECURSIVE SelectAvailable(_)
SelectAvailable(rows) ==
    IF rows = <<>> THEN <<>>
    ELSE LET row == Head(rows)
             item == [id |-> row.id, name |-> row.name,
                      price |-> ParseFloat(row.price),
                      available |-> (row.available = "TRUE")]
         IN  (IF item.available THEN <<item>> ELSE <<>>)
                 \o SelectAvailable(Tail(rows))

\* getMenu() answering from the rows whether or not values.get returned: a
\* variant the properties of a failed read must tell apart
getMenuWithoutLine64(readOk, rows) ==
    IF rows = <<>> THEN <<>>
    ELSE SelectAvailable(rows)

\* getMenu(), lines 45-68: readOk is whether values.get returned; rows are
\* the data rows it returned
getMenu(readOk, rows) ==
    IF ~readOk THEN <<>>
    ELSE IF rows = <<>> THEN <<>>
    ELSE SelectAvailable(rows)

\* the row saveOrder builds, lines 73-84 (column A, the time stamp, left
\* out); K is the cell of column K of that row, which append leaves empty
OrderRow(orderData) ==
    [phone |-> orderData.customerPhone,
     customerName |-> orderData.customerName,
     items |-> orderData.items,
     total |-> orderData.total,
     deliveryType |-> orderData.deliveryType,
     address |-> orderData.address,
     paymentMethod |-> IF orderData.paymentMethod # "" THEN orderData.paymentMethod ELSE "Efectivo",
     paymentStatus |-> IF orderData.paymentStatus # "" THEN orderData.paymentStatus ELSE "Pendiente",
     status |-> "NUEVO",
     K |-> ""]

\* saveOrder(orderData), lines 71-95: the rows after the call; a failed
\* append is logged and swallowed
saveOrder(rows, orderData, appendOk) ==
    IF appendOk THEN Append(rows, OrderRow(orderData)) ELSE rows

\* the index of the last row whose phone matches, 0 when there is none:
\* the loop of lines 109-119 over the data rows
RECURSIVE LastRowOf(_, _, _)
LastRowOf(rows, i, phone) ==
    IF i < 1 THEN 0
    ELSE IF rows[i].phone = phone THEN i
    ELSE LastRowOf(rows, i - 1, phone)

\* updateOrderStatus(phone, newStatus), lines 98-125: callOk is whether both
\* Sheets calls (values.get, values.update) returned
updateOrderStatus(rows, phone, newStatus, callOk) ==
    LET i == LastRowOf(rows, Len(rows), phone)
    IN  IF ~callOk \/ rows = <<>> \/ i = 0
        THEN [rows |-> rows, found |-> FALSE]
        ELSE [rows |-> [rows EXCEPT ![i].K = newStatus], found |-> TRUE]

----------------------------------------------------------------------------
(* Message formatter *)

RECURSIVE SumSubtotals(_)
SumSubtotals(cart) ==
    IF cart = <<>> THEN 0
    ELSE SumSubtotals(SubSeq(cart, 1, Len(cart) - 1))
            + cart[Len(cart)].price * cart[Len(cart)].quantity

\* formatCart with line 180 adding item.price instead of the subtotal: a
\* variant the properties of the totals must tell apart
formatCartAddingPrices(cart, showOptions) ==
    [lines |-> [i \in 1..Len(cart) |->
                  [n |-> i, name |-> cart[i].name, quantity |-> cart[i].quantity,
                   price |-> cart[i].price,
                   subtotal |-> cart[i].price * cart[i].quantity]],
     total |-> SumSubtotals([i \in 1..Len(cart) |-> [cart[i] EXCEPT !.quantity = 1]]),
     showOptions |-> showOptions,
     showFinalizar |-> showOptions /\ Len(cart) > 0]

\* formatCart(cart, showOptions), lines 172-201: the numbered lines, the
\* total, and whether the options and the finalizar/limpiar hints are shown
formatCart(cart, showOptions) ==
    [lines |-> [i \in 1..Len(cart) |->
                  [n |-> i, name |-> cart[i].name, quantity |-> cart[i].quantity,
                   price |-> cart[i].price,
                   subtotal |-> cart[i].price * cart[i].quantity]],
     total |-> SumSubtotals(cart),
     showOptions |-> showOptions,
     showFinalizar |-> showOptions /\ Len(cart) > 0]

\* formatMenuWithButtons(menu), lines 145-169: one box per item
formatMenuWithButtons(menu) ==
    [i \in 1..Len(menu) |->
        [id |-> menu[i].id, name |-> menu[i].name, price |-> menu[i].price]]

\* An outbound text: its template and the data interpolated into it.
\* cart holds at most one rendering of formatCart. orderId tells which
\* reading of Date.now() the text shows as the order id: the n-th one that
\* the code building the text has taken, 0 when the text shows no id.
Text(tpl) ==
    [tpl |-> tpl, menu |-> <<>>, cart |-> <<>>, added |-> <<>>,
     notFound |-> <<>>, address |-> <<>>, items |-> <<>>, total |-> 0,
     pago |-> "", deliveryType |-> "", name |-> "", orderId |-> 0]

----------------------------------------------------------------------------
(* app.post('/webhook'), lines 326-577 *)

StartsWith(s, prefix) ==
    Len(s) >= Len(prefix) /\ SubSeq(s, 1, Len(prefix)) = prefix

\* The locals the handler computes from req.body before it reads the maps,
\* lines 327-330, and the test of line 340 on the media fields
Locals(q) ==
    [From |-> q.From,
     message |-> IF q.Body # <<>> THEN Trim(ToLowerCase(q.Body)) ELSE <<>>,
     customerName |-> IF q.ProfileName # "" THEN q.ProfileName ELSE "Cliente",
     image |-> /\ q.MediaUrl0 # ""
               /\ q.MediaContentType0 # <<>>
               /\ StartsWith(q.MediaContentType0, <<"i", "m", "a", "g", "e", "/">>)]

\* the calls the handler tells apart
Inbound == {Locals(q) : q \in Requests}

\* In what follows r is a call as Locals gives it.
message(r) == r.message

customerName(r) == r.customerName

\* line 335
userState(r) ==
    IF Has(userStates, r.From) THEN userStates[r.From] ELSE MAIN_MENU

\* line 336
cart(r) ==
    IF Has(userCarts, Key(r.From, "")) THEN userCarts[Key(r.From, "")] ELSE <<>>

\* line 340
IsImage(r) == r.image

\* /^[\d,\s]+$/.test(message), line 510
IsSelection(m) ==
    /\ Len(m) >= 1
    /\ \A i \in 1..Len(m) : m[i] \in Digits \/ m[i] = "," \/ IsSpace(m[i])

\* userCarts.get(phone + '_delivery') || 'pickup', line 447
deliveryType(r) ==
    IF Has(userCarts, Key(r.From, "_delivery"))
    THEN userCarts[Key(r.From, "_delivery")]
    ELSE "pickup"

\* userCarts.get(phone + '_address') || '', lines 468 and 477
finalAddress(r) ==
    IF Has(userCarts, Key(r.From, "_address"))
    THEN userCarts[Key(r.From, "_address")]
    ELSE <<>>

\* !userCarts.get(phone + '_address'), line 450: no entry, or the empty string
NoAddress(r) == finalAddress(r) = <<>>

m_menu == <<"m", "e", "n", "u">>
m_menu2 == <<"m", "e", "n", "u'">>
m_carrito == <<"c", "a", "r", "r", "i", "t", "o">>
m_limpiar == <<"l", "i", "m", "p", "i", "a", "r">>
m_cancelar == <<"c", "a", "n", "c", "e", "l", "a", "r">>
m_finalizar == <<"f", "i", "n", "a", "l", "i", "z", "a", "r">>

\* The chain with the test of line 510 ahead of those of lines 413 and 446
\* (numbers are product selections in every state): a variant the
\* properties of the checkout steps must tell apart
BranchWithLine510First(r) ==
    IF IsImage(r) /\ userState(r) = PAYMENT_CONFIRMATION THEN "comprobante"
    ELSE IF message(r) = m_menu \/ message(r) = m_menu2 THEN "menu"
    ELSE IF message(r) = m_carrito THEN "carrito"
    ELSE IF message(r) = m_limpiar THEN "limpiar"
    ELSE IF message(r) = m_cancelar THEN "cancelar"
    ELSE IF message(r) = m_finalizar THEN "finalizar"
    ELSE IF IsSelection(message(r)) THEN "selection"
    ELSE IF userState(r) = DELIVERY_INFO THEN "delivery_info"
    ELSE IF userState(r) = PAYMENT_METHOD THEN
        IF deliveryType(r) = "delivery" /\ NoAddress(r) THEN "address"
        ELSE "payment_invalid"
    ELSE "welcome"

\* The chain with the tests of lines 466 and 475 ahead of that of line 450 (1
\* and 2 choose the payment even when the address is missing): a variant the
\* properties of the address step must tell apart
BranchWithLine466First(r) ==
    IF IsImage(r) /\ userState(r) = PAYMENT_CONFIRMATION THEN "comprobante"
    ELSE IF message(r) = m_menu \/ message(r) = m_menu2 THEN "menu"
    ELSE IF message(r) = m_carrito THEN "carrito"
    ELSE IF message(r) = m_limpiar THEN "limpiar"
    ELSE IF message(r) = m_cancelar THEN "cancelar"
    ELSE IF message(r) = m_finalizar THEN "finalizar"
    ELSE IF userState(r) = DELIVERY_INFO THEN "delivery_info"
    ELSE IF userState(r) = PAYMENT_METHOD THEN
        IF message(r) = <<"1">> THEN "efectivo"
        ELSE IF message(r) = <<"2">> THEN "mercadopago"
        ELSE IF deliveryType(r) = "delivery" /\ NoAddress(r) THEN "address"
        ELSE "payment_invalid"
    ELSE IF IsSelection(message(r)) THEN "selection"
    ELSE "welcome"

\* The chain without the test of line 341 (an image is a proof of payment in
\* every state): a variant the properties of the proof of payment must tell
\* apart
BranchWithoutLine341(r) ==
    IF IsImage(r) THEN "comprobante"
    ELSE IF message(r) = m_menu \/ message(r) = m_menu2 THEN "menu"
    ELSE IF message(r) = m_carrito THEN "carrito"
    ELSE IF message(r) = m_limpiar THEN "limpiar"
    ELSE IF message(r) = m_cancelar THEN "cancelar"
    ELSE IF message(r) = m_finalizar THEN "finalizar"
    ELSE IF userState(r) = DELIVERY_INFO THEN "delivery_info"
    ELSE IF userState(r) = PAYMENT_METHOD THEN
        IF deliveryType(r) = "delivery" /\ NoAddress(r) THEN "address"
        ELSE IF message(r) = <<"1">> THEN "efectivo"
        ELSE IF message(r) = <<"2">> THEN "mercadopago"
        ELSE "payment_invalid"
    ELSE IF IsSelection(message(r)) THEN "selection"
    ELSE "welcome"

\* The chain with the state tests of lines 413 and 446 ahead of the command
\* tests of lines 354-391: a variant the properties of the commands must tell
\* apart
BranchWithLine413First(r) ==
    IF IsImage(r) /\ userState(r) = PAYMENT_CONFIRMATION THEN "comprobante"
    ELSE IF userState(r) = DELIVERY_INFO THEN "delivery_info"
    ELSE IF userState(r) = PAYMENT_METHOD THEN
        IF deliveryType(r) = "delivery" /\ NoAddress(r) THEN "address"
        ELSE IF message(r) = <<"1">> THEN "efectivo"
        ELSE IF message(r) = <<"2">> THEN "mercadopago"
        ELSE "payment_invalid"
    ELSE IF message(r) = m_menu \/ message(r) = m_menu2 THEN "menu"
    ELSE IF message(r) = m_carrito THEN "carrito"
    ELSE IF message(r) = m_limpiar THEN "limpiar"
    ELSE IF message(r) = m_cancelar THEN "cancelar"
    ELSE IF message(r) = m_finalizar THEN "finalizar"
    ELSE IF IsSelection(message(r)) THEN "selection"
    ELSE "welcome"

\* The branch of the if / else-if chain of lines 340-569 that serves r
Branch(r) ==
    IF IsImage(r) /\ userState(r) = PAYMENT_CONFIRMATION THEN "comprobante"
    ELSE IF message(r) = m_menu \/ message(r) = m_menu2 THEN "menu"
    ELSE IF message(r) = m_carrito THEN "carrito"
    ELSE IF message(r) = m_limpiar THEN "limpiar"
    ELSE IF message(r) = m_cancelar THEN "cancelar"
    ELSE IF message(r) = m_finalizar THEN "finalizar"
    ELSE IF userState(r) = DELIVERY_INFO THEN "delivery_info"
    ELSE IF userState(r) = PAYMENT_METHOD THEN
        IF deliveryType(r) = "delivery" /\ NoAddress(r) THEN "address"
        ELSE IF message(r) = <<"1">> THEN "efectivo"
        ELSE IF message(r) = <<"2">> THEN "mercadopago"
        ELSE "payment_invalid"
    ELSE IF IsSelection(message(r)) THEN "selection"
    ELSE "welcome"

\* the texts of a callee that reads the clock after its caller has read it n
\* times: its readings are numbered after the caller's
After(n, texts) ==
    [i \in 1..Len(texts) |->
        IF texts[i].orderId = 0 THEN texts[i]
        ELSE [texts[i] EXCEPT !.orderId = @ + n]]

\* What one call does: the maps and the sheet as it leaves them, the texts
\* it hands to the transport and the Sheets calls it makes, both in order
Outcome(us, uc, os, texts, sheetCalls) ==
    [userStates |-> us, userCarts |-> uc, orders |-> os,
     out |-> texts, calls |-> sheetCalls]

Call(fn, ok) == [fn |-> fn, ok |-> ok]

----------------------------------------------------------------------------
(* The branches of the handler: the outcome of each *)

\* lines 340-352: a proof-of-payment image
Comprobante(r, callOk) ==
    LET u == updateOrderStatus(orders, r.From, "PAGO_RECIBIDO", callOk)
    IN  Outcome(MapSet(userStates, r.From, MAIN_MENU), userCarts, u.rows,
                <<Text("Comprobante recibido")>>,
                <<[fn |-> "updateOrderStatus", ok |-> u.found]>>)

\* lines 354-363
Menu(r, readOk, rows) ==
    LET menu == getMenu(readOk, rows)
    IN  Outcome(MapSet(userStates, r.From, BROWSING_PRODUCTS), userCarts, orders,
                <<[Text("MENU") EXCEPT !.menu = formatMenuWithButtons(menu),
                                       !.cart = <<formatCart(cart(r), TRUE)>>]>>,
                <<Call("getMenu", readOk)>>)

\* lines 365-367
Carrito(r) ==
    Outcome(userStates, userCarts, orders,
            <<[Text("TU CARRITO") EXCEPT !.cart = <<formatCart(cart(r), TRUE)>>]>>,
            <<>>)

\* Limpiar without line 372 (the session stays where it was): a variant
\* the properties of limpiar must tell apart
LimpiarWithoutLine372(r) ==
    Outcome(userStates, MapSet(userCarts, Key(r.From, ""), <<>>), orders,
            <<[Text("Carrito vaciado") EXCEPT !.cart = <<formatCart(<<>>, TRUE)>>]>>,
            <<>>)

\* lines 369-372
Limpiar(r) ==
    Outcome(MapSet(userStates, r.From, MAIN_MENU),
            MapSet(userCarts, Key(r.From, ""), <<>>), orders,
            <<[Text("Carrito vaciado") EXCEPT !.cart = <<formatCart(<<>>, TRUE)>>]>>,
            <<>>)

\* lines 374-389
\* the same branch without the test of line 375 (the order is cancelled
\* whatever the cart holds): a variant the properties of an empty
\* cancellation must tell apart
CancelarWithoutLine375(r) ==
    Outcome(MapSet(userStates, r.From, MAIN_MENU),
            MapSet(userCarts, Key(r.From, ""), <<>>), orders,
            <<Text("Pedido cancelado")>>, <<>>)

\* the cancelar branch without line 378: the cart is emptied and the state
\* is left as it was
CancelarWithoutLine378(r) ==
    IF Len(cart(r)) > 0
    THEN Outcome(userStates,
                 MapSet(userCarts, Key(r.From, ""), <<>>), orders,
                 <<Text("Pedido cancelado")>>, <<>>)
    ELSE Outcome(userStates, userCarts, orders, <<Text("Sin pedido activo")>>, <<>>)

Cancelar(r) ==
    IF Len(cart(r)) > 0
    THEN Outcome(MapSet(userStates, r.From, MAIN_MENU),
                 MapSet(userCarts, Key(r.From, ""), <<>>), orders,
                 <<Text("Pedido cancelado")>>, <<>>)
    ELSE Outcome(userStates, userCarts, orders, <<Text("Sin pedido activo")>>, <<>>)

\* Finalizar without the test of line 392 (an empty cart checks out too): a
\* variant the properties of finalizar must tell apart
FinalizarWithoutLine392(r) ==
    Outcome(MapSet(userStates, r.From, DELIVERY_INFO), userCarts, orders,
            <<[Text("RESUMEN DE TU PEDIDO") EXCEPT
                 !.cart = <<formatCart(cart(r), FALSE)>>]>>,
            <<>>)

\* lines 391-411
Finalizar(r) ==
    IF Len(cart(r)) = 0
    THEN Outcome(userStates, userCarts, orders, <<Text("Carrito vacio")>>, <<>>)
    ELSE Outcome(MapSet(userStates, r.From, DELIVERY_INFO), userCarts, orders,
                 <<[Text("RESUMEN DE TU PEDIDO") EXCEPT
                      !.cart = <<formatCart(cart(r), FALSE)>>]>>,
                 <<>>)

\* lines 413-444
DeliveryInfo(r) ==
    IF message(r) = <<"1">>
    THEN Outcome(MapSet(userStates, r.From, PAYMENT_METHOD),
                 MapSet(userCarts, Key(r.From, "_delivery"), "delivery"), orders,
                 <<Text("DIRECCION PARA DELIVERY")>>, <<>>)
    ELSE IF message(r) = <<"2">>
    THEN Outcome(MapSet(userStates, r.From, PAYMENT_METHOD),
                 MapSet(userCarts, Key(r.From, "_delivery"), "pickup"), orders,
                 <<[Text("METODO DE PAGO") EXCEPT
                      !.cart = <<formatCart(cart(r), FALSE)>>,
                      !.deliveryType = "pickup"]>>,
                 <<>>)
    ELSE Outcome(userStates, userCarts, orders,
                 <<Text("Opcion no valida: delivery o retiro")>>, <<>>)

\* lines 448-464: the address step
Address(r) ==
    LET address == message(r)
    IN  Outcome(userStates, MapSet(userCarts, Key(r.From, "_address"), address), orders,
                <<[Text("METODO DE PAGO") EXCEPT
                     !.cart = <<formatCart(cart(r), FALSE)>>,
                     !.deliveryType = "delivery",
                     !.address = address]>>,
                <<>>)

\* lines 506-508
PaymentInvalid(r) ==
    Outcome(userStates, userCarts, orders,
            <<Text("Opcion no valida: efectivo o mercadopago")>>, <<>>)

\* lines 560-569
\* the welcome branch without line 568: the state is left as it was
WelcomeWithoutLine568(r) ==
    Outcome(userStates, userCarts, orders,
            <<[Text("Hola") EXCEPT !.name = customerName(r)]>>, <<>>)

Welcome(r) ==
    Outcome(MapSet(userStates, r.From, MAIN_MENU), userCarts, orders,
            <<[Text("Hola") EXCEPT !.name = customerName(r)]>>, <<>>)

\* cart.reduce((sum, item) => sum + item.price * item.quantity, 0),
\* lines 264 and 478
RECURSIVE ReduceTotal(_, _)
ReduceTotal(items, sum) ==
    IF items = <<>> THEN sum
    ELSE ReduceTotal(Tail(items), sum + Head(items).price * Head(items).quantity)

\* processOrder with a saveOrder that lets the failure of the append through
\* (no try/catch at lines 72 and 92): the handler's catch of line 571 sends
\* the apology and nothing of lines 282-315 runs; a variant the properties
\* of a failed append must tell apart
processOrderWithoutLine92(phone, name, items, delivery, address, paymentMethod, appendOk) ==
    IF appendOk
    THEN Outcome(MapSet(userStates, phone, MAIN_MENU),
                 MapSet(userCarts, Key(phone, ""), <<>>),
                 Append(orders,
                        OrderRow([customerPhone |-> phone, customerName |-> name,
                                  items |-> items, total |-> ReduceTotal(items, 0),
                                  deliveryType |-> delivery, address |-> address,
                                  paymentMethod |-> paymentMethod,
                                  paymentStatus |-> IF paymentMethod = "efectivo"
                                                    THEN "Confirmado" ELSE "Pendiente"])),
                 <<[Text("PEDIDO CONFIRMADO") EXCEPT !.total = ReduceTotal(items, 0)]>>,
                 <<Call("saveOrder", TRUE)>>)
    ELSE Outcome(userStates, userCarts, orders, <<Text("Hubo un error")>>,
                 <<Call("saveOrder", FALSE)>>)

\* processOrder(...), lines 263-318: the sheet and the maps after it, and the
\* confirmation it sends; its order id is its reading of the clock (line 265)
processOrder(phone, name, items, delivery, address, paymentMethod, appendOk) ==
    LET total == ReduceTotal(items, 0)
        orderData == [customerPhone |-> phone,
                      customerName |-> name,
                      items |-> items,
                      total |-> total,
                      deliveryType |-> delivery,
                      address |-> address,
                      paymentMethod |-> paymentMethod,
                      paymentStatus |-> IF paymentMethod = "efectivo"
                                        THEN "Confirmado" ELSE "Pendiente"]
        confirmMessage ==
            [Text("PEDIDO CONFIRMADO") EXCEPT
               !.items = [i \in 1..Len(items) |->
                            [name |-> items[i].name,
                             quantity |-> items[i].quantity,
                             subtotal |-> items[i].price * items[i].quantity]],
               !.total = total,
               !.orderId = 1,
               !.pago = IF paymentMethod = "efectivo" THEN "Efectivo" ELSE "MercadoPago",
               !.deliveryType = IF delivery = "delivery" THEN "delivery" ELSE "retiro",
               !.address = IF delivery = "delivery" THEN address ELSE <<>>]
    IN  Outcome(MapSet(userStates, phone, MAIN_MENU),
                MapSet(userCarts, Key(phone, ""), <<>>),
                saveOrder(orders, orderData, appendOk),
                <<confirmMessage>>,
                <<Call("saveOrder", appendOk)>>)

\* Efectivo without line 473 (the pending address outlives the order): a
\* variant the properties of the payment step must tell apart
EfectivoWithoutLine473(r, appendOk) ==
    LET p == processOrder(r.From, customerName(r), cart(r), deliveryType(r),
                          finalAddress(r), "efectivo", appendOk)
    IN  Outcome(p.userStates, MapDelete(p.userCarts, Key(r.From, "_delivery")),
                p.orders, p.out, p.calls)

\* lines 466-473: cash
Efectivo(r, appendOk) ==
    LET p == processOrder(r.From, customerName(r), cart(r), deliveryType(r),
                          finalAddress(r), "efectivo", appendOk)
    IN  Outcome(p.userStates,
                MapDelete(MapDelete(p.userCarts, Key(r.From, "_delivery")),
                          Key(r.From, "_address")),
                p.orders, p.out, p.calls)

\* MercadoPago without line 500 (the session is left where processOrder
\* leaves it): a variant the properties of the payment step must tell apart
MercadoPagoWithoutLine500(r, appendOk) ==
    LET p == processOrder(r.From, customerName(r), cart(r), deliveryType(r),
                          finalAddress(r), "mercadopago", appendOk)
    IN  Outcome(p.userStates,
                MapDelete(MapDelete(p.userCarts, Key(r.From, "_delivery")),
                          Key(r.From, "_address")),
                p.orders,
                <<[Text("PAGAR CON MERCADOPAGO") EXCEPT
                     !.cart = <<formatCart(cart(r), FALSE)>>,
                     !.total = ReduceTotal(cart(r), 0)]>> \o p.out,
                p.calls)

\* lines 475-504: MercadoPago
MercadoPago(r, appendOk) ==
    LET total == ReduceTotal(cart(r), 0)
        mpMessage == [Text("PAGAR CON MERCADOPAGO") EXCEPT
                        !.cart = <<formatCart(cart(r), FALSE)>>,
                        !.total = total,
                        !.orderId = 1]
        p == processOrder(r.From, customerName(r), cart(r), deliveryType(r),
                          finalAddress(r), "mercadopago", appendOk)
    IN  Outcome(MapSet(p.userStates, r.From, PAYMENT_CONFIRMATION),
                MapDelete(MapDelete(p.userCarts, Key(r.From, "_delivery")),
                          Key(r.From, "_address")),
                p.orders, <<mpMessage>> \o After(1, p.out), p.calls)

\* message.split(/[,\s]+/).map(id => parseInt(id.trim())).filter(id => !isNaN(id)),
\* line 513
RECURSIVE ParseIds(_)
ParseIds(tokens) ==
    IF tokens = <<>> THEN <<>>
    ELSE ParseInt(Trim(Head(tokens))) \o ParseIds(Tail(tokens))

productIds(m) == ParseIds(Split(m))

\* menu.find(item => parseInt(item.id) === productId), line 519: the index of
\* the first such item, 0 when there is none
FindProduct(menu, productId) ==
    LET hits == {i \in 1..Len(menu) : ParseInt(menu[i].id) = <<productId>>}
    IN  IF hits = {} THEN 0 ELSE CHOOSE i \in hits : \A j \in hits : i <= j

\* cart.find(item => item.id === product.id), line 522
FindLine(items, id) ==
    LET hits == {i \in 1..Len(items) : items[i].id = id}
    IN  IF hits = {} THEN 0 ELSE CHOOSE i \in hits : \A j \in hits : i <= j

\* the same body with line 532 moved next to the push of line 527 (a name is
\* listed only when its line is created): a variant the properties of the
\* reply must tell apart
AddProductListingNewLines(acc, menu, productId) ==
    LET k == FindProduct(menu, productId)
        e == IF k # 0 THEN FindLine(acc.cart, menu[k].id) ELSE 0
    IN  IF k # 0 /\ e # 0
        THEN [acc EXCEPT !.cart[e].quantity = @ + 1]
        ELSE IF k # 0
        THEN [cart |-> Append(acc.cart,
                              [id |-> menu[k].id, name |-> menu[k].name,
                               price |-> menu[k].price,
                               available |-> menu[k].available,
                               quantity |-> 1]),
              added |-> Append(acc.added, menu[k].name),
              notFound |-> acc.notFound]
        ELSE [acc EXCEPT !.notFound = Append(@, ToString(productId))]

\* the same body without the lookup of line 522 (every id found adds a
\* line): a variant the properties of the cart must tell apart
AddProductWithoutLine522(acc, menu, productId) ==
    LET k == FindProduct(menu, productId)
    IN  IF k # 0
        THEN [cart |-> Append(acc.cart,
                              [id |-> menu[k].id, name |-> menu[k].name,
                               price |-> menu[k].price,
                               available |-> menu[k].available,
                               quantity |-> 1]),
              added |-> Append(acc.added, menu[k].name),
              notFound |-> acc.notFound]
        ELSE [cart |-> acc.cart,
              added |-> acc.added,
              notFound |-> Append(acc.notFound, ToString(productId))]

\* the body of productIds.forEach, lines 518-536, on one id; acc holds the
\* cart, addedProducts and notFoundProducts
AddProduct(acc, menu, productId) ==
    LET k == FindProduct(menu, productId)
    IN  IF k # 0
        THEN LET product == menu[k]
                 e == FindLine(acc.cart, product.id)
             IN  [cart |-> IF e # 0
                           THEN [acc.cart EXCEPT ![e].quantity = @ + 1]
                           ELSE Append(acc.cart,
                                       [id |-> product.id, name |-> product.name,
                                        price |-> product.price,
                                        available |-> product.available,
                                        quantity |-> 1]),
                  added |-> Append(acc.added, product.name),
                  notFound |-> acc.notFound]
        ELSE [cart |-> acc.cart,
              added |-> acc.added,
              notFound |-> Append(acc.notFound, ToString(productId))]

\* productIds.forEach(...), lines 515-536
RECURSIVE AddProducts(_, _, _)
AddProducts(acc, menu, ids) ==
    IF ids = <<>> THEN acc
    ELSE AddProducts(AddProduct(acc, menu, Head(ids)), menu, Tail(ids))

\* lines 510-558: product selection
Selection(r, readOk, rows) ==
    LET menu == getMenu(readOk, rows)
        done == AddProducts([cart |-> cart(r), added |-> <<>>, notFound |-> <<>>],
                            menu, productIds(message(r)))
    IN  Outcome(MapSet(userStates, r.From, BROWSING_PRODUCTS),
                MapSet(userCarts, Key(r.From, ""), done.cart), orders,
                <<[Text("Productos") EXCEPT
                     !.added = done.added,
                     !.notFound = done.notFound,
                     !.cart = <<formatCart(done.cart, TRUE)>>]>>,
                <<Call("getMenu", readOk)>>)

\* the outcome of the branch named b on call r when the spreadsheet behaves
\* as env says
Dispatch(b, r, env) ==
    CASE b = "comprobante" -> Comprobante(r, env.ok)
      [] b = "menu" -> Menu(r, env.ok, env.rows)
      [] b = "carrito" -> Carrito(r)
      [] b = "limpiar" -> Limpiar(r)
      [] b = "cancelar" -> Cancelar(r)
      [] b = "finalizar" -> Finalizar(r)
      [] b = "delivery_info" -> DeliveryInfo(r)
      [] b = "address" -> Address(r)
      [] b = "efectivo" -> Efectivo(r, env.ok)
      [] b = "mercadopago" -> MercadoPago(r, env.ok)
      [] b = "payment_invalid" -> PaymentInvalid(r)
      [] b = "selection" -> Selection(r, env.ok, env.rows)
      [] b = "welcome" -> Welcome(r)

\* The handler on call r
Webhook(r, env) == Dispatch(Branch(r), r, env)

\* the behaviours of the spreadsheet that the branch named b can tell apart
EnvsOf(b) ==
    IF b \in {"menu", "selection"} THEN Envs
    ELSE IF b \in {"comprobante", "efectivo", "mercadopago"}
    THEN {[ok |-> TRUE, rows |-> <<>>], [ok |-> FALSE, rows |-> <<>>]}
    ELSE {[ok |-> TRUE, rows |-> <<>>]}

----------------------------------------------------------------------------
(* The panel: app.get('/api/orders') and app.post('/api/orders/:phone/status') *)

\* the numbers the panel addresses: the customer's, and one without orders
AdminPhones == {"+5491", "+5490"}

\* `whatsapp:${phone}`, lines 625 and 664
WhatsApp(phone) ==
    CASE phone = "+5491" -> "whatsapp:+5491"
      [] phone = "+5492" -> "whatsapp:+5492"
      [] phone = "+5490" -> "whatsapp:+5490"

\* the statuses with a notification, lines 631-660
NotifiedStatuses ==
    {"PREPARANDO", "LISTO", "EN_DELIVERY", "ENTREGADO", "FINALIZADO", "CANCELADO"}

\* the statuses the panel posts in the model: one with a notification, one
\* the switch does not know
AdminStatuses == {"PREPARANDO", "DEMORADO"}

\* the switch of lines 631-661: the notification of a status, "" for none
notificationMessage(status) ==
    IF status \in NotifiedStatuses THEN status ELSE ""

\* One row as the list of lines 598-610 shows it: columns A to J of the
\* sheet (the date left out)
ListedOrder(rows, i) ==
    [rowIndex |-> i + 1,
     phone |-> rows[i].phone,
     customer |-> rows[i].customerName,
     items |-> rows[i].items,
     total |-> rows[i].total,
     deliveryType |-> rows[i].deliveryType,
     address |-> rows[i].address,
     paymentMethod |-> IF rows[i].paymentMethod # "" THEN rows[i].paymentMethod
                       ELSE "Efectivo",
     paymentStatus |-> IF rows[i].paymentStatus # "" THEN rows[i].paymentStatus
                       ELSE "Pendiente",
     status |-> IF rows[i].status # "" THEN rows[i].status ELSE "NUEVO"]

\* app.get('/api/orders'), lines 585-617: the answer on the data rows
ApiOrders(rows, readOk) ==
    IF ~readOk THEN [code |-> 500, body |-> <<>>]
    ELSE [code |-> 200, body |-> [i \in 1..Len(rows) |-> ListedOrder(rows, i)]]

\* The same handler without the test of line 627 (the notification does not
\* wait for the update to succeed): a variant the properties of the panel
\* must tell apart
ApiStatusWithoutLine627(phone, status, callOk) ==
    LET u == updateOrderStatus(orders, WhatsApp(phone), status, callOk)
    IN  [orders |-> u.rows,
         out |-> IF notificationMessage(status) # ""
                 THEN <<[to |-> WhatsApp(phone), tpl |-> notificationMessage(status)]>>
                 ELSE <<>>,
         calls |-> <<[fn |-> "updateOrderStatus", ok |-> u.found]>>,
         code |-> 200]

\* app.post('/api/orders/:phone/status'), lines 620-676: the sheet after the
\* call, the notifications sent, the Sheets calls made and the answer
ApiStatus(phone, status, callOk) ==
    LET u == updateOrderStatus(orders, WhatsApp(phone), status, callOk)
    IN  [orders |-> u.rows,
         out |-> IF u.found /\ notificationMessage(status) # ""
                 THEN <<[to |-> WhatsApp(phone), tpl |-> notificationMessage(status)]>>
                 ELSE <<>>,
         calls |-> <<[fn |-> "updateOrderStatus", ok |-> u.found]>>,
         code |-> IF u.found THEN 200 ELSE 404]

----------------------------------------------------------------------------
(* The handler as a sequence of steps: what it does between two awaits *)

\* One step of the handler's code: a call it awaits (op "call", arg the
\* function called), a write to the maps, or the acknowledgement
I(op, arg) == [op |-> op, arg |-> arg]

ack == I("ack", "")

\* lines 340-352
ComprobanteSteps ==
    <<I("call", "values.get"), I("call", "sendMessage"),
      I("setState", MAIN_MENU), ack>>

\* lines 354-363, then line 576
MenuSteps ==
    <<I("call", "getMenu"), I("call", "sendInteractiveMessage"),
      I("setState", BROWSING_PRODUCTS), ack>>

\* lines 365-367, then line 576
CarritoSteps == <<I("call", "sendInteractiveMessage"), ack>>

\* lines 369-372, then line 576
LimpiarSteps ==
    <<I("newCart", ""), I("call", "sendInteractiveMessage"),
      I("setState", MAIN_MENU), ack>>

\* lines 374-389, then line 576
CancelarSteps(r) ==
    IF Len(cart(r)) > 0
    THEN <<I("newCart", ""), I("setState", MAIN_MENU),
           I("call", "sendInteractiveMessage"), ack>>
    ELSE <<I("call", "sendInteractiveMessage"), ack>>

\* the same steps without the return of line 394 (line 576 is reached after
\* it): a variant the properties of the acknowledgement must tell apart
FinalizarStepsWithoutReturn394(r) ==
    IF Len(cart(r)) = 0
    THEN <<I("call", "sendInteractiveMessage"), ack,
           I("call", "sendInteractiveMessage"), I("setState", DELIVERY_INFO), ack>>
    ELSE <<I("call", "sendInteractiveMessage"), I("setState", DELIVERY_INFO), ack>>

\* lines 391-411: line 394 acknowledges and returns; otherwise line 576
FinalizarSteps(r) ==
    IF Len(cart(r)) = 0
    THEN <<I("call", "sendInteractiveMessage"), ack>>
    ELSE <<I("call", "sendInteractiveMessage"), I("setState", DELIVERY_INFO), ack>>

\* lines 413-444, then line 576
DeliveryInfoSteps(r) ==
    IF message(r) = <<"1">>
    THEN <<I("call", "sendInteractiveMessage"), I("setState", PAYMENT_METHOD),
           I("setDelivery", "delivery"), ack>>
    ELSE IF message(r) = <<"2">>
    THEN <<I("setDelivery", "pickup"), I("call", "sendInteractiveMessage"),
           I("setState", PAYMENT_METHOD), ack>>
    ELSE <<I("call", "sendInteractiveMessage"), ack>>

\* lines 450-463
AddressSteps == <<I("setAddress", ""), I("call", "sendMessage"), ack>>

\* lines 466-473, then line 576
EfectivoSteps ==
    <<I("processOrder", "efectivo"), I("deletePending", ""), ack>>

\* lines 475-504, then line 576
MercadoPagoSteps ==
    <<I("call", "sendInteractiveMessage"), I("processOrder", "mercadopago"),
      I("setState", PAYMENT_CONFIRMATION), I("deletePending", ""), ack>>

\* lines 506-508, then line 576
PaymentInvalidSteps == <<I("call", "sendInteractiveMessage"), ack>>

\* lines 510-558, then line 576
SelectionSteps ==
    <<I("call", "getMenu"), I("addProducts", ""), I("call", "sendMessage"),
      I("setState", BROWSING_PRODUCTS), ack>>

\* lines 560-568, then line 576
WelcomeSteps ==
    <<I("call", "sendMessage"), I("setState", MAIN_MENU), ack>>

\* the steps of processOrder after the order is built, lines 279-315
ProcessOrderSteps ==
    <<I("call", "values.append"), I("newCart", ""), I("setState", MAIN_MENU),
      I("call", "sendMessage")>>

\* the steps ahead of the handler when it enters the try block on call r,
\* lines 338-576
Steps(r) ==
    CASE Branch(r) = "comprobante" -> ComprobanteSteps
      [] Branch(r) = "menu" -> MenuSteps
      [] Branch(r) = "carrito" -> CarritoSteps
      [] Branch(r) = "limpiar" -> LimpiarSteps
      [] Branch(r) = "cancelar" -> CancelarSteps(r)
      [] Branch(r) = "finalizar" -> FinalizarSteps(r)
      [] Branch(r) = "delivery_info" -> DeliveryInfoSteps(r)
      [] Branch(r) = "address" -> AddressSteps
      [] Branch(r) = "efectivo" -> EfectivoSteps
      [] Branch(r) = "mercadopago" -> MercadoPagoSteps
      [] Branch(r) = "payment_invalid" -> PaymentInvalidSteps
      [] Branch(r) = "selection" -> SelectionSteps
      [] Branch(r) = "welcome" -> WelcomeSteps

----------------------------------------------------------------------------
(* Calls of the handler in progress. The process runs one of them at a time,
   from an await to the next; the others wait for the call they made. *)

\* the calls that may be in progress together
Slots == {1, 2}

NoCall == [From |-> "", message |-> <<>>, customerName |-> "", image |-> FALSE]

\* A call of the handler: r its request, branch the branch it took, todo
\* the steps ahead of it (the first one the call it awaits), ref its local
\* cart (0: the array the map holds; d > 0: the array heap[d]), delivery and
\* address the pending fields it read on entry, menu what getMenu returned
\* to it, row the order it handed to saveOrder, idx the row that
\* updateOrderStatus found, acks the acknowledgements it has sent, met the
\* call that the other handler was awaiting when this one was received, seen
\* the lines of the cart when it was received
Idle ==
    [pc |-> "idle", r |-> NoCall, branch |-> "none", todo |-> <<>>, ref |-> 0,
     delivery |-> "", address |-> <<>>, menu |-> <<>>, row |-> <<>>, idx |-> 0,
     acks |-> 0, met |-> "none", seen |-> <<>>]

\* In what follows st is the memory of the process and the sheet:
\* [us, uc, os, heap, hs], for userStates, userCarts, orders, heap, handlers.

\* the handlers in progress whose local cart is array d of customer p
Holders(st, p, d) ==
    {k \in Slots : /\ st.hs[k].pc \in {"running", "awaiting"}
                   /\ st.hs[k].r.From = p
                   /\ st.hs[k].ref = d}

\* an array of the heap that no handler holds
FreeId(st) ==
    CHOOSE d \in Slots : \A k \in Slots :
        st.hs[k].pc \in {"running", "awaiting"} => st.hs[k].ref # d

\* the local variable cart of handler h, line 336
Local(st, h) ==
    IF st.hs[h].ref = 0 THEN GetOr(st.uc, Key(st.hs[h].r.From, ""), <<>>)
    ELSE st.heap[st.hs[h].ref]

\* userCarts.set(phone, []), lines 282, 370, 377: the map gets a new array;
\* the handlers that hold the old one keep it
NewCart(st, h) ==
    LET p == st.hs[h].r.From
        key == Key(p, "")
        keep == Holders(st, p, 0)
    IN  IF Has(st.uc, key) /\ keep # {}
        THEN LET d == FreeId(st)
             IN  [st EXCEPT !.heap[d] = st.uc[key],
                            !.uc = MapSet(st.uc, key, <<>>),
                            !.hs = [k \in Slots |->
                                      IF k \in keep THEN [st.hs[k] EXCEPT !.ref = d]
                                      ELSE st.hs[k]]]
        ELSE [st EXCEPT !.uc = MapSet(st.uc, key, <<>>)]

\* cart.push(...) and existingItem.quantity += 1, lines 525-530: the array
\* changes in place, for everyone who holds it
Mutate(st, h, lines) ==
    IF st.hs[h].ref = 0
    THEN [st EXCEPT !.uc = MapSet(st.uc, Key(st.hs[h].r.From, ""), lines)]
    ELSE [st EXCEPT !.heap[st.hs[h].ref] = lines]

\* userCarts.set(phone, cart), line 538: the map gets the local array of h;
\* the handlers that hold the array it held keep it
SetCart(st, h) ==
    LET p == st.hs[h].r.From
        key == Key(p, "")
        d == st.hs[h].ref
        keep == Holders(st, p, 0)
        mine == Holders(st, p, d)
    IN  IF d = 0 THEN st
        ELSE [st EXCEPT
                !.uc = MapSet(st.uc, key, st.heap[d]),
                !.heap[d] = IF keep # {} THEN GetOr(st.uc, key, <<>>) ELSE <<>>,
                !.hs = [k \in Slots |->
                          IF k \in mine THEN [st.hs[k] EXCEPT !.ref = 0]
                          ELSE IF k \in keep THEN [st.hs[k] EXCEPT !.ref = d]
                          ELSE st.hs[k]]]

\* the element of a set of one, which serves to evaluate a value once:
\* Only({F(x) : x \in {e}}) is F(e)
Only(S) == CHOOSE x \in S : TRUE

\* line 513 for every message of the model
ProductIds == [m \in {message(r) : r \in Inbound} |-> productIds(m)]

\* productIds.forEach(...) of lines 515-536 on the lines base, with the menu
\* and the message of handler h: the lines after it
Added(st, h, base) ==
    Only({ AddProducts([cart |-> base, added |-> <<>>, notFound |-> <<>>],
                       menu, ids).cart :
             menu \in {st.hs[h].menu},
             ids \in {ProductIds[message(st.hs[h].r)]} })

\* the same lines on a cart read again from the map after the await of line
\* 512: a variant the properties of two calls in progress must tell apart
AddToCartReadAgain(st, h) ==
    Only({ [st EXCEPT !.uc = MapSet(st.uc, Key(st.hs[h].r.From, ""), lines)] :
             lines \in {Added(st, h, GetOr(st.uc, Key(st.hs[h].r.From, ""), <<>>))} })

\* lines 513-538: the ids of the message are added to the local cart, and
\* the map is given that array
AddToCart(st, h) ==
    Only({ SetCart(after, h) :
             after \in {Mutate(st, h, Added(st, h, Local(st, h)))} })

\* processOrder up to the call of line 279 (lines 264-278, and the row that
\* saveOrder builds from orderData at lines 73-84)
StartProcessOrder(st, h, paymentMethod) ==
    LET r == st.hs[h].r
        items == Local(st, h)
        orderData == [customerPhone |-> r.From,
                      customerName |-> customerName(r),
                      items |-> items,
                      total |-> ReduceTotal(items, 0),
                      deliveryType |-> st.hs[h].delivery,
                      address |-> st.hs[h].address,
                      paymentMethod |-> paymentMethod,
                      paymentStatus |-> IF paymentMethod = "efectivo"
                                        THEN "Confirmado" ELSE "Pendiente"]
    IN  [st EXCEPT !.hs[h].row = <<OrderRow(orderData)>>,
                   !.hs[h].todo = ProcessOrderSteps \o @]

\* one step that is not a call, by handler h
Exec(st, h, i) ==
    LET p == st.hs[h].r.From
    IN  CASE i.op = "setState" -> [st EXCEPT !.us = MapSet(st.us, p, i.arg)]
          [] i.op = "newCart" -> NewCart(st, h)
          [] i.op = "setDelivery" ->
                [st EXCEPT !.uc = MapSet(st.uc, Key(p, "_delivery"), i.arg)]
          [] i.op = "setAddress" ->
                [st EXCEPT !.uc = MapSet(st.uc, Key(p, "_address"),
                                         message(st.hs[h].r))]
          [] i.op = "deletePending" ->
                [st EXCEPT !.uc = MapDelete(MapDelete(st.uc, Key(p, "_delivery")),
                                            Key(p, "_address"))]
          [] i.op = "addProducts" -> AddToCart(st, h)
          [] i.op = "processOrder" -> StartProcessOrder(st, h, i.arg)
          [] i.op = "ack" -> [st EXCEPT !.hs[h].acks = @ + 1]

\* the handler returns: its locals are gone
End(st, h) ==
    LET d == st.hs[h].ref
        p == st.hs[h].r.From
    IN  [st EXCEPT
           !.heap = IF d # 0 /\ Holders(st, p, d) = {h}
                    THEN [st.heap EXCEPT ![d] = <<>>] ELSE st.heap,
           !.hs[h] = [Idle EXCEPT !.pc = "done", !.r = st.hs[h].r,
                                  !.branch = st.hs[h].branch,
                                  !.menu = st.hs[h].menu,
                                  !.acks = st.hs[h].acks,
                                  !.met = st.hs[h].met,
                                  !.seen = st.hs[h].seen]]

RECURSIVE Run(_, _)
\* handler h runs until it awaits a call or returns
Run(st, h) ==
    IF st.hs[h].todo = <<>> THEN End(st, h)
    ELSE IF Head(st.hs[h].todo).op = "call"
    THEN [st EXCEPT !.hs[h].pc = "awaiting"]
    ELSE Only({ Only({ Run(after, h) : after \in {Exec(popped, h, Head(st.hs[h].todo))} }) :
                    popped \in {[st EXCEPT !.hs[h].todo = Tail(@)]} })

----------------------------------------------------------------------------
(* The bot, one webhook call at a time *)

\* rows of the sheet os that the customers of the model have placed
Placed(os) == Cardinality({i \in 1..Len(os) : os[i].phone \in Phones})

\* The bounds of the model on an outcome: no cart line above MaxQty, no more
\* than MaxOrders orders placed, and no cart filled once they are all placed
WithinBounds(o) ==
    /\ Placed(o.orders) <= MaxOrders
    /\ \A k \in DOMAIN o.userCarts :
          k[2] = "" =>
             /\ \A i \in 1..Len(o.userCarts[k]) : o.userCarts[k][i].quantity <= MaxQty
             /\ Placed(o.orders) = MaxOrders => o.userCarts[k] = <<>>

\* one call served by the branch named b
Serve(r, b) ==
    \E env \in EnvsOf(b) :
         \E o \in {Dispatch(b, r, env)} :
            /\ WithinBounds(o)
            /\ userStates' = o.userStates
            /\ userCarts' = o.userCarts
            /\ orders' = o.orders
            /\ last' = b
            /\ failed' = ~env.ok
            /\ UNCHANGED <<handlers, heap>>

WebhookComprobante(r) ==
    /\ Branch(r) = "comprobante"
    /\ Serve(r, "comprobante")

WebhookMenu(r) ==
    /\ Branch(r) = "menu"
    /\ Serve(r, "menu")

WebhookCarrito(r) ==
    /\ Branch(r) = "carrito"
    /\ Serve(r, "carrito")

WebhookLimpiar(r) ==
    /\ Branch(r) = "limpiar"
    /\ Serve(r, "limpiar")

WebhookCancelar(r) ==
    /\ Branch(r) = "cancelar"
    /\ Serve(r, "cancelar")

WebhookFinalizar(r) ==
    /\ Branch(r) = "finalizar"
    /\ Serve(r, "finalizar")

WebhookDeliveryInfo(r) ==
    /\ Branch(r) = "delivery_info"
    /\ Serve(r, "delivery_info")

WebhookAddress(r) ==
    /\ Branch(r) = "address"
    /\ Serve(r, "address")

WebhookEfectivo(r) ==
    /\ Branch(r) = "efectivo"
    /\ Serve(r, "efectivo")

WebhookMercadoPago(r) ==
    /\ Branch(r) = "mercadopago"
    /\ Serve(r, "mercadopago")

WebhookPaymentInvalid(r) ==
    /\ Branch(r) = "payment_invalid"
    /\ Serve(r, "payment_invalid")

WebhookSelection(r) ==
    /\ Branch(r) = "selection"
    /\ Serve(r, "selection")

WebhookWelcome(r) ==
    /\ Branch(r) = "welcome"
    /\ Serve(r, "welcome")


\* the panel lists the orders: nothing changes
GetApiOrders ==
    /\ \E readOk \in BOOLEAN : ApiOrders(orders, readOk).code \in {200, 500}
    /\ UNCHANGED vars

\* the panel sets the status of the last order of a number
\* the status endpoint with the session reset of the image branch (line 348)
\* after its update
PostApiStatusWithLine348(phone, status) ==
    \E callOk \in BOOLEAN :
        /\ orders' = ApiStatus(phone, status, callOk).orders
        /\ userStates' = MapSet(userStates, WhatsApp(phone), MAIN_MENU)
        /\ UNCHANGED <<userCarts, last, failed, handlers, heap>>

PostApiStatus(phone, status) ==
    \E callOk \in BOOLEAN :
        /\ orders' = ApiStatus(phone, status, callOk).orders
        /\ UNCHANGED <<userStates, userCarts, last, failed, handlers, heap>>

\* what the spreadsheet may hold when the process starts: nothing, or an
\* order of another customer
InitialOrders ==
    { <<>>,
      <<OrderRow([customerPhone |-> OtherPhone, customerName |-> "Cliente",
                  items |-> <<[id |-> <<"2">>, name |-> "Pizza", price |-> 25,
                               available |-> TRUE, quantity |-> 1]>>,
                  total |-> 25, deliveryType |-> "pickup", address |-> <<>>,
                  paymentMethod |-> "efectivo", paymentStatus |-> "Confirmado"])>> }

Init ==
    /\ userStates = EmptyMap
    /\ userCarts = EmptyMap
    /\ orders \in InitialOrders
    /\ last = "none"
    /\ failed = FALSE
    /\ handlers = [h \in Slots |-> Idle]
    /\ heap = [d \in Slots |-> <<>>]

Next ==
    \/ GetApiOrders
    \/ \E phone \in AdminPhones, status \in AdminStatuses : PostApiStatus(phone, status)
    \/ \E r \in Inbound :
        \/ WebhookComprobante(r)
        \/ WebhookMenu(r)
        \/ WebhookCarrito(r)
        \/ WebhookLimpiar(r)
        \/ WebhookCancelar(r)
        \/ WebhookFinalizar(r)
        \/ WebhookDeliveryInfo(r)
        \/ WebhookAddress(r)
        \/ WebhookEfectivo(r)
        \/ WebhookMercadoPago(r)
        \/ WebhookPaymentInvalid(r)
        \/ WebhookSelection(r)
        \/ WebhookWelcome(r)

Spec == Init /\ [][Next]_vars

----------------------------------------------------------------------------
(* The bot, one await at a time: two calls to /webhook in progress *)

\* the memory of the process and the sheet, as Run takes them
Memory ==
    [us |-> userStates, uc |-> userCarts, os |-> orders, heap |-> heap,
     hs |-> handlers]

Become(next) ==
    \E st \in {next} :
    /\ userStates' = st.us
    /\ userCarts' = st.uc
    /\ orders' = st.os
    /\ heap' = st.heap
    /\ handlers' = st.hs
    /\ UNCHANGED <<last, failed>>

\* handler h awaits the call of fn
Pending(h, fn) ==
    /\ handlers[h].pc = "awaiting"
    /\ Head(handlers[h].todo).arg = fn

\* the awaited call has returned: handler h goes on after it
Resume(st, h) ==
    Only({Run(popped, h) : popped \in {[st EXCEPT !.hs[h].todo = Tail(@)]}})

\* the awaited call has returned: handler h calls fn next
Then(st, h, fn) ==
    [st EXCEPT !.hs[h].todo = <<I("call", fn)>> \o Tail(@)]

\* The call that handler h awaits returns (ok) or fails; rows are the data
\* rows of "Menu" if it reads them.
\*   getMenu, lines 355 and 512;
\*   values.get, the read of updateOrderStatus, lines 100-119: the last row
\*     of the customer, if any, is the one to update;
\*   values.update, its write, lines 111-117;
\*   values.append, the append of saveOrder, lines 86-94;
\*   sendMessage, lines 204-219: a failure is logged and swallowed;
\*   sendInteractiveMessage, lines 222-260: on a failure sendMessage is called
Returned(st, h, ok, rows) ==
    LET fn == Head(st.hs[h].todo).arg
        i == IF ok /\ st.os # <<>>
             THEN LastRowOf(st.os, Len(st.os), st.hs[h].r.From) ELSE 0
    IN  CASE fn = "getMenu" ->
                Resume([st EXCEPT !.hs[h].menu = getMenu(ok, rows)], h)
          [] fn = "values.get" ->
                IF i # 0 THEN Then([st EXCEPT !.hs[h].idx = i], h, "values.update")
                ELSE Resume(st, h)
          [] fn = "values.update" ->
                Resume([st EXCEPT
                          !.os = IF ok
                                 THEN [st.os EXCEPT ![st.hs[h].idx].K = "PAGO_RECIBIDO"]
                                 ELSE st.os], h)
          [] fn = "values.append" ->
                Resume([st EXCEPT
                          !.os = IF ok THEN Append(st.os, st.hs[h].row[1])
                                 ELSE st.os], h)
          [] fn = "sendMessage" -> Resume(st, h)
          [] fn = "sendInteractiveMessage" ->
                IF ok THEN Resume(st, h) ELSE Then(st, h, "sendMessage")

\* lines 326-338 and on to the first await: the handler is called with r
\* while the memory is st, in slot h
Entered(st, h, r) ==
    LET other == CHOOSE k \in Slots : k # h
        slot == [Idle EXCEPT
                   !.pc = "running",
                   !.r = r,
                   !.branch = Branch(r),
                   !.todo = Steps(r),
                   !.ref = IF Has(st.uc, Key(r.From, "")) THEN 0 ELSE FreeId(st),
                   !.delivery = deliveryType(r),
                   !.address = finalAddress(r),
                   !.seen = cart(r),
                   !.met = IF st.hs[other].pc = "awaiting"
                           THEN Head(st.hs[other].todo).arg ELSE "none"]
    IN  Only({Run(called, h) : called \in {[st EXCEPT !.hs[h] = slot]}})

\* the calls that arrive while another is in progress
Rapid == {r \in Inbound : ~IsImage(r) /\ message(r) \in {m_limpiar, <<"1">>, <<"2">>}}

\* Express calls the handler. The second slot is taken after the first.
Receive(h, r) ==
    /\ handlers[h].pc = "idle"
    /\ h = 2 => handlers[1].pc # "idle" /\ r \in Rapid
    /\ Become(Entered(Memory, h, r))

\* what the read of "Menu" may meet in these runs
MenuReads ==
    {[ok |-> TRUE, rows |-> rows] : rows \in MenuSheets \ {<<>>}}
        \cup {[ok |-> FALSE, rows |-> <<>>]}

GetMenuReturns(h) ==
    /\ Pending(h, "getMenu")
    /\ \E env \in MenuReads : Become(Returned(Memory, h, env.ok, env.rows))

ValuesGetReturns(h) ==
    /\ Pending(h, "values.get")
    /\ \E ok \in BOOLEAN : Become(Returned(Memory, h, ok, <<>>))

ValuesUpdateReturns(h) ==
    /\ Pending(h, "values.update")
    /\ \E ok \in BOOLEAN : Become(Returned(Memory, h, ok, <<>>))

ValuesAppendReturns(h) ==
    /\ Pending(h, "values.append")
    /\ \E ok \in BOOLEAN : Become(Returned(Memory, h, ok, <<>>))

SendMessageReturns(h) ==
    /\ Pending(h, "sendMessage")
    /\ \E ok \in BOOLEAN : Become(Returned(Memory, h, ok, <<>>))

SendInteractiveMessageReturns(h) ==
    /\ Pending(h, "sendInteractiveMessage")
    /\ \E ok \in BOOLEAN : Become(Returned(Memory, h, ok, <<>>))

\* a line of the cart, as line 527 pushes it for the second row of MenuSheets
PizzaLine ==
    [id |-> <<"2">>, name |-> "Pizza", price |-> 25, available |-> TRUE,
     quantity |-> 1]

\* where two calls may find the customer: sessions that the bot reaches one
\* call at a time (new; browsing with a pizza; asked for the delivery type;
\* asked for the address; asked for the payment; waiting for the proof of
\* an order paid online)
Sessions ==
    LET p == "whatsapp:+5491"
        at(state) == MapSet(EmptyMap, p, state)
        pizza == MapSet(EmptyMap, Key(p, ""), <<PizzaLine>>)
        row == OrderRow([customerPhone |-> p, customerName |-> "Ana",
                         items |-> <<PizzaLine>>, total |-> 25,
                         deliveryType |-> "pickup", address |-> <<>>,
                         paymentMethod |-> "mercadopago",
                         paymentStatus |-> "Pendiente"])
    IN  { [us |-> EmptyMap, uc |-> EmptyMap, os |-> <<>>],
          [us |-> at(BROWSING_PRODUCTS), uc |-> pizza, os |-> <<>>],
          [us |-> at(DELIVERY_INFO), uc |-> pizza, os |-> <<>>],
          [us |-> at(PAYMENT_METHOD),
           uc |-> MapSet(pizza, Key(p, "_delivery"), "delivery"), os |-> <<>>],
          [us |-> at(PAYMENT_METHOD),
           uc |-> MapSet(pizza, Key(p, "_delivery"), "pickup"), os |-> <<>>],
          [us |-> at(PAYMENT_CONFIRMATION),
           uc |-> MapSet(EmptyMap, Key(p, ""), <<>>), os |-> <<row>>] }

StepInit ==
    /\ \E s \in Sessions :
          /\ userStates = s.us
          /\ userCarts = s.uc
          /\ orders = s.os
    /\ last = "none"
    /\ failed = FALSE
    /\ handlers = [h \in Slots |-> Idle]
    /\ heap = [d \in Slots |-> <<>>]

StepNext ==
    \E h \in Slots :
        \/ \E r \in Inbound : Receive(h, r)
        \/ GetMenuReturns(h)
        \/ ValuesGetReturns(h)
        \/ ValuesUpdateReturns(h)
        \/ ValuesAppendReturns(h)
        \/ SendMessageReturns(h)
        \/ SendInteractiveMessageReturns(h)

\* the calls in progress, with no assumption on the calls they await
StepSpec == StepInit /\ [][StepNext]_vars

\* a call awaited by handler h returns or fails
Returns(h) ==
    \/ GetMenuReturns(h)
    \/ ValuesGetReturns(h)
    \/ ValuesUpdateReturns(h)
    \/ ValuesAppendReturns(h)
    \/ SendMessageReturns(h)
    \/ SendInteractiveMessageReturns(h)

\* the calls in progress when every external call eventually returns or
\* fails
FairSpec == StepSpec /\ \A h \in Slots : WF_vars(Returns(h))

RECURSIVE Solo(_, _, _)
\* handler h runs to its end with no other call in progress, every call it
\* awaits behaving as env says
Solo(st, h, env) ==
    IF st.hs[h].pc = "done" THEN st
    ELSE Only({Solo(next, h, env) : next \in {Returned(st, h, env.ok, env.rows)}})

\* The two grains agree: where no call is in progress, a call that runs
\* alone from await to await leaves the maps and the sheet as Webhook does,
\* and is acknowledged once.
SoloAgrees ==
    (\A h \in Slots : handlers[h].pc = "idle") =>
        \A r \in Inbound, env \in Envs :
            \E fin \in {Solo(Entered(Memory, 1, r), 1, env)}, o \in {Webhook(r, env)} :
                /\ fin.us = o.userStates
                /\ fin.uc = o.userCarts
                /\ fin.os = o.orders
                /\ fin.heap = heap
                /\ fin.hs[1].acks = 1

----------------------------------------------------------------------------
(* Vocabulary of the properties *)

\* the session of phone p in maps us and uc, as the handler reads it
StateOf(us, p) == IF Has(us, p) THEN us[p] ELSE MAIN_MENU

CartOf(uc, p) == IF Has(uc, Key(p, "")) THEN uc[Key(p, "")] ELSE <<>>

\* the pending delivery type and the pending address of p: the entries under
\* the two side keys
PendingOf(uc, p) ==
    [k \in {Key(p, "_delivery"), Key(p, "_address")} \cap DOMAIN uc |-> uc[k]]

NoPending(uc, p) == PendingOf(uc, p) = EmptyMap

Commands == {m_menu, m_menu2, m_carrito, m_limpiar, m_cancelar, m_finalizar}

\* the spreadsheet answers every call
SheetUp == {env \in Envs : env.ok}

\* sum of price x quantity over the lines of a cart
RECURSIVE Sigma(_)
Sigma(lines) ==
    IF lines = <<>> THEN 0
    ELSE Head(lines).price * Head(lines).quantity + Sigma(Tail(lines))

\* the calls to the order gateway among the Sheets calls cs
OrderCalls(cs) ==
    {i \in 1..Len(cs) : cs[i].fn \in {"saveOrder", "updateOrderStatus"}}

\* the payment step proper: PAYMENT_METHOD with the delivery type pickup or
\* the address known
PayStep(r) ==
    /\ userState(r) = PAYMENT_METHOD
    /\ deliveryType(r) = "pickup" \/ ~NoAddress(r)

\* the rows of os past those of the sheet as it is
Appended(os) == SubSeq(os, Len(orders) + 1, Len(os))

----------------------------------------------------------------------------
(* C1 *)

\* C1, as the code has it: once a finalization that stored its order (input
\* 1 or 2 at the payment step) has been handled, the cart of the session is
\* empty; the session is in MAIN_MENU after input 1 (cash) and in
\* PAYMENT_CONFIRMATION after input 2 (online payment).
C1_CartEmptyStateByPayment ==
    \A r \in Inbound, env \in SheetUp :
        PayStep(r) /\ message(r) \in {<<"1">>, <<"2">>} =>
            \E o \in {Webhook(r, env)} :
                /\ Len(Appended(o.orders)) = 1
                /\ CartOf(o.userCarts, r.From) = <<>>
                /\ StateOf(o.userStates, r.From) =
                      IF message(r) = <<"1">> THEN MAIN_MENU ELSE PAYMENT_CONFIRMATION

\* an online payment has just been finalized: the order is in the sheet, the
\* cart is empty and the session waits for the proof of payment
C1_Witness ==
    /\ last = "mercadopago"
    /\ \E p \in Phones :
          /\ Placed(orders) = 1
          /\ CartOf(userCarts, p) = <<>>
          /\ StateOf(userStates, p) = PAYMENT_CONFIRMATION

\* C1 as written: after every finalization that stored its order, whatever
\* the payment method, the cart is empty and the session is in MAIN_MENU.
C1_AsWritten ==
    last \in {"efectivo", "mercadopago"} /\ Placed(orders) > 0 =>
        \A p \in Phones :
            /\ CartOf(userCarts, p) = <<>>
            /\ StateOf(userStates, p) = MAIN_MENU

----------------------------------------------------------------------------
(* C2 *)

\* the one row a finalization of call r adds to the sheet
RowOf(r, method, paid) ==
    OrderRow([customerPhone |-> r.From, customerName |-> customerName(r),
              items |-> cart(r), total |-> Sigma(cart(r)),
              deliveryType |-> deliveryType(r), address |-> finalAddress(r),
              paymentMethod |-> method, paymentStatus |-> paid])

\* C2: at the payment step (PAYMENT_METHOD, the address known or the delivery
\* type pickup), input 1 stores exactly one order, paid in cash and with
\* payment status confirmed, clears both pending fields and ends in
\* MAIN_MENU; input 2 stores exactly one order, paid online and with payment
\* status pending, clears both pending fields and ends in
\* PAYMENT_CONFIRMATION; any other input that is not a command stores
\* nothing and leaves state, cart and pending fields as they were.  (Storing
\* is one append to the sheet; when the append itself fails no row is left,
\* and the rest holds all the same.)
C2_PaymentStep ==
    \A r \in Inbound, env \in Envs :
        PayStep(r) /\ message(r) \notin Commands =>
            \E o \in {Webhook(r, env)} :
                IF message(r) \in {<<"1">>, <<"2">>}
                THEN LET cash == message(r) = <<"1">>
                         row == IF cash THEN RowOf(r, "efectivo", "Confirmado")
                                ELSE RowOf(r, "mercadopago", "Pendiente")
                     IN  /\ o.calls = <<Call("saveOrder", env.ok)>>
                         /\ o.orders = orders \o (IF env.ok THEN <<row>> ELSE <<>>)
                         /\ NoPending(o.userCarts, r.From)
                         /\ StateOf(o.userStates, r.From) =
                               IF cash THEN MAIN_MENU ELSE PAYMENT_CONFIRMATION
                ELSE /\ o.calls = <<>>
                     /\ o.orders = orders
                     /\ StateOf(o.userStates, r.From) = PAYMENT_METHOD
                     /\ CartOf(o.userCarts, r.From) = cart(r)
                     /\ PendingOf(o.userCarts, r.From) = PendingOf(userCarts, r.From)

\* a delivery order paid in cash has just been stored: its row carries the
\* address, the pending fields are gone and the session is in MAIN_MENU
C2_Witness ==
    /\ last = "efectivo"
    /\ \E p \in Phones :
          /\ orders # <<>>
          /\ orders[Len(orders)].phone = p
          /\ orders[Len(orders)].paymentMethod = "efectivo"
          /\ orders[Len(orders)].paymentStatus = "Confirmado"
          /\ orders[Len(orders)].deliveryType = "delivery"
          /\ orders[Len(orders)].address # <<>>
          /\ NoPending(userCarts, p)
          /\ StateOf(userStates, p) = MAIN_MENU

----------------------------------------------------------------------------
(* C3 *)

\* what C3 says of the outcome o of a finalizar on call r
FinalizarEffect(r, o) ==
    IF cart(r) = <<>>
    THEN /\ OrderCalls(o.calls) = {}
         /\ o.orders = orders
         /\ StateOf(o.userStates, r.From) = userState(r)
         /\ CartOf(o.userCarts, r.From) = <<>>
         /\ PendingOf(o.userCarts, r.From) = PendingOf(userCarts, r.From)
    ELSE /\ OrderCalls(o.calls) = {}
         /\ o.orders = orders
         /\ StateOf(o.userStates, r.From) = DELIVERY_INFO

\* C3, as the code has it: in every session state, a finalizar that is not
\* an image received in PAYMENT_CONFIRMATION makes no call to the order
\* gateway and leaves state, cart and pending fields as they were when the
\* cart is empty; with lines in the cart it stores nothing and moves the
\* session to DELIVERY_INFO.
C3_FinalizarWithoutProof ==
    \A r \in Inbound, env \in Envs :
        /\ message(r) = m_finalizar
        /\ ~(IsImage(r) /\ userState(r) = PAYMENT_CONFIRMATION)
        => FinalizarEffect(r, Webhook(r, env))

\* a text finalizar has just been answered in PAYMENT_CONFIRMATION, where
\* the cart is empty, and the session is still there
C3_Witness ==
    /\ last = "finalizar"
    /\ \E p \in Phones :
          /\ CartOf(userCarts, p) = <<>>
          /\ StateOf(userStates, p) = PAYMENT_CONFIRMATION

\* C3 as written: in every session state, every finalizar event has that
\* effect (an image with the caption finalizar included).
C3_AsWritten ==
    \A r \in Inbound, env \in Envs :
        message(r) = m_finalizar => FinalizarEffect(r, Webhook(r, env))

----------------------------------------------------------------------------
(* C4 *)

\* the carts of the sessions
Carts == {userCarts[k] : k \in {x \in DOMAIN userCarts : x[2] = ""}}

WellFormed(c) ==
    /\ \A i, j \in 1..Len(c) : c[i].id = c[j].id => i = j
    /\ \A i \in 1..Len(c) : c[i].quantity >= 1

\* the token n resolves in the catalog: an available product has that number
Resolves(menu, n) == \E i \in 1..Len(menu) : ParseInt(menu[i].id) = <<n>>

\* from cart a to cart b one line gained one unit, created with quantity 1
\* if it was not there, and no other line changed
OneMore(a, b) ==
    \/ /\ Len(b) = Len(a)
       /\ \E i \in 1..Len(a) :
             /\ b[i] = [a[i] EXCEPT !.quantity = @ + 1]
             /\ \A j \in 1..Len(a) : j # i => b[j] = a[j]
    \/ /\ Len(b) = Len(a) + 1
       /\ SubSeq(b, 1, Len(a)) = a
       /\ b[Len(b)].quantity = 1
       /\ \A j \in 1..Len(a) : a[j].id # b[Len(b)].id

\* the cart of call r after the first n tokens of its message
CartAfter(r, menu, n) ==
    AddProducts([cart |-> cart(r), added |-> <<>>, notFound |-> <<>>], menu,
                SubSeq(productIds(message(r)), 1, n)).cart

\* C4: in every reachable state, calls handled one at a time and whatever
\* the catalog each fetch returns, no cart has two lines with the same
\* product id and every line has quantity >= 1; each resolved token of a
\* product-selection message raises the quantity of exactly one line by
\* exactly 1 (creating it with quantity 1 if absent) and changes no other
\* line, a token that does not resolve changes none, and the cart stored is
\* the cart after the last token.
C4_CartLines ==
    /\ \A c \in Carts : WellFormed(c)
    /\ \A r \in Inbound, env \in Envs :
          Branch(r) = "selection" =>
             LET menu == getMenu(env.ok, env.rows)
                 ids == productIds(message(r))
             IN  /\ \A n \in 1..Len(ids) :
                       IF Resolves(menu, ids[n])
                       THEN OneMore(CartAfter(r, menu, n - 1), CartAfter(r, menu, n))
                       ELSE CartAfter(r, menu, n) = CartAfter(r, menu, n - 1)
                 /\ CartOf(Webhook(r, env).userCarts, r.From) = CartAfter(r, menu, Len(ids))

\* a selection has just left a cart of two lines, one of them taken twice
C4_Witness ==
    /\ last = "selection"
    /\ \E c \in Carts :
          /\ Len(c) = 2
          /\ \E i \in 1..Len(c) : c[i].quantity = 2

----------------------------------------------------------------------------
(* C5 *)

\* the product a resolved token n stands for: the first of the catalog with
\* that number
ProductOf(menu, n) ==
    menu[CHOOSE i \in 1..Len(menu) :
            /\ ParseInt(menu[i].id) = <<n>>
            /\ \A j \in 1..(i - 1) : ParseInt(menu[j].id) # <<n>>]

\* how many of the tokens ids resolve to the product with id pid
Occurrences(menu, ids, pid) ==
    Cardinality({n \in 1..Len(ids) :
                    Resolves(menu, ids[n]) /\ ProductOf(menu, ids[n]).id = pid})

LinesOf(c, pid) == {i \in 1..Len(c) : c[i].id = pid}

\* the quantity cart c holds of product pid
QuantityOf(c, pid) ==
    IF LinesOf(c, pid) = {} THEN 0 ELSE c[CHOOSE i \in LinesOf(c, pid) : TRUE].quantity

\* one name per resolved token, in the order of the tokens
RECURSIVE Names(_, _)
Names(menu, ids) ==
    IF ids = <<>> THEN <<>>
    ELSE (IF Resolves(menu, Head(ids)) THEN <<ProductOf(menu, Head(ids)).name>> ELSE <<>>)
         \o Names(menu, Tail(ids))

\* one number per token that does not resolve, in the order of the tokens
RECURSIVE Misses(_, _)
Misses(menu, ids) ==
    IF ids = <<>> THEN <<>>
    ELSE (IF Resolves(menu, Head(ids)) THEN <<>> ELSE <<ToString(Head(ids))>>)
         \o Misses(menu, Tail(ids))

\* the product ids of a catalog and two carts
IdsOf(menu, a, b) ==
    {menu[i].id : i \in 1..Len(menu)} \cup {a[i].id : i \in 1..Len(a)}
        \cup {b[i].id : i \in 1..Len(b)}

\* C5: within one product-selection message whose tokens repeat a product id,
\* the quantity of that product grows by the number of its occurrences among
\* the resolved tokens, on a single line of the cart; the list of added
\* products of the reply has one entry per resolved token (a repeated
\* product appears repeatedly) and the list of products not found one entry
\* per token that does not resolve.
C5_RepeatedTokens ==
    \A r \in Inbound, env \in Envs :
        Branch(r) = "selection" =>
            \E o \in {Webhook(r, env)} :
                LET menu == getMenu(env.ok, env.rows)
                    ids == productIds(message(r))
                    after == CartOf(o.userCarts, r.From)
                IN  /\ \A pid \in IdsOf(menu, cart(r), after) :
                          /\ QuantityOf(after, pid) =
                                QuantityOf(cart(r), pid) + Occurrences(menu, ids, pid)
                          /\ Cardinality(LinesOf(after, pid)) <= 1
                    /\ Len(o.out) = 1
                    /\ o.out[1].added = Names(menu, ids)
                    /\ o.out[1].notFound = Misses(menu, ids)

\* the message 1,2,1 has just been served with the cart empty and both
\* products on sale: one line holds product 1 twice, and answering it again
\* lists that product twice among the three added
C5_Witness ==
    /\ last = "selection"
    /\ \E p \in Phones :
          /\ Len(CartOf(userCarts, p)) = 2
          /\ QuantityOf(CartOf(userCarts, p), <<"1">>) = 2
    /\ \E r \in Inbound, env \in SheetUp :
          /\ Branch(r) = "selection"
          /\ Len(productIds(message(r))) = 3
          /\ Len(Webhook(r, env).out[1].added) = 3
          /\ Webhook(r, env).out[1].added[1] = Webhook(r, env).out[1].added[3]

----------------------------------------------------------------------------
(* C6 *)

\* the rendering v shows the lines of cart c and the sum of their prices
\* times quantities as the total
Shows(v, c) ==
    /\ Len(v.lines) = Len(c)
    /\ \A i \in 1..Len(c) :
          /\ v.lines[i].name = c[i].name
          /\ v.lines[i].price = c[i].price
          /\ v.lines[i].quantity = c[i].quantity
    /\ v.total = Sigma(c)

\* the cart the session holds when the texts of call r with outcome o are
\* written: a finalization writes them before it empties the cart, every
\* other branch after its last change to the cart
CartShown(r, o) ==
    IF PayStep(r) /\ message(r) \in {<<"1">>, <<"2">>}
    THEN cart(r)
    ELSE CartOf(o.userCarts, r.From)

\* C6: at any moment the total of a cart is the sum over its lines of unit
\* price times quantity: every rendering of the cart sent to the customer
\* shows that sum for the lines the cart holds at that moment, the payment
\* and confirmation texts of a finalization show it for the cart being
\* ordered, and every order in the sheet has as total that sum over its own
\* items.
C6_Totals ==
    /\ \A i \in 1..Len(orders) : orders[i].total = Sigma(orders[i].items)
    /\ \A r \in Inbound, env \in Envs :
          \E o \in {Webhook(r, env)} :
             /\ \A n \in 1..Len(o.out) :
                   /\ o.out[n].cart # <<>> => Shows(o.out[n].cart[1], CartShown(r, o))
                   /\ o.out[n].tpl \in {"PAGAR CON MERCADOPAGO", "PEDIDO CONFIRMADO"}
                         => o.out[n].total = Sigma(cart(r))
             /\ \A i \in 1..Len(o.orders) :
                   /\ o.orders[i].total = Sigma(o.orders[i].items)
                   /\ i > Len(orders) => o.orders[i].items = cart(r)

\* an order of two units of one product and one of the other has just been
\* stored, with their sum as total
C6_Witness ==
    /\ \E i \in 1..Len(orders) :
          /\ orders[i].phone \in Phones
          /\ Len(orders[i].items) = 2
          /\ \E k \in 1..2 : orders[i].items[k].quantity = 2
          /\ orders[i].total = Sigma(orders[i].items)
          /\ orders[i].total > 0
    /\ last \in {"efectivo", "mercadopago"}

----------------------------------------------------------------------------
(* C7 *)

\* the one text of outcome o reports an empty cart with total zero
ReportsEmptyCart(o) ==
    /\ Len(o.out) = 1
    /\ o.out[1].cart # <<>>
    /\ o.out[1].cart[1].lines = <<>>
    /\ o.out[1].cart[1].total = 0

\* C7: from every session state and every cart, a limpiar leaves the cart
\* empty and the session in MAIN_MENU, and a carrito handled right after it
\* reports an empty cart with total zero.
C7_LimpiarThenCarrito ==
    /\ \A r \in Inbound, env \in Envs :
          message(r) = m_limpiar =>
             \E o \in {Webhook(r, env)} :
                /\ CartOf(o.userCarts, r.From) = <<>>
                /\ StateOf(o.userStates, r.From) = MAIN_MENU
    /\ last = "limpiar" =>
          \A p \in Phones :
             /\ CartOf(userCarts, p) = <<>>
             /\ StateOf(userStates, p) = MAIN_MENU
    /\ \A r \in Inbound, env \in Envs :
          /\ message(r) = m_carrito
          /\ cart(r) = <<>>
          /\ userState(r) = MAIN_MENU
          => ReportsEmptyCart(Webhook(r, env))

\* a limpiar has just been handled in the middle of a checkout: the delivery
\* type chosen is still pending, the cart is empty, the session in MAIN_MENU
C7_Witness ==
    /\ last = "limpiar"
    /\ \E p \in Phones :
          /\ Has(userCarts, Key(p, "_delivery"))
          /\ Has(userCarts, Key(p, ""))
          /\ userCarts[Key(p, "")] = <<>>
          /\ StateOf(userStates, p) = MAIN_MENU

----------------------------------------------------------------------------
(* C8 *)

\* C8: in DELIVERY_INFO every input that is not a command and is not
\* exactly 1 or 2 (other digits, letters, text, nothing) gets the
\* invalid-option prompt again, keeps the session in DELIVERY_INFO, leaves
\* cart and pending fields as they were and calls no gateway.
C8_DeliveryInfoInvalid ==
    \A r \in Inbound, env \in Envs :
        /\ userState(r) = DELIVERY_INFO
        /\ message(r) \notin Commands \cup {<<"1">>, <<"2">>}
        => \E o \in {Webhook(r, env)} :
              /\ o.out = <<Text("Opcion no valida: delivery o retiro")>>
              /\ StateOf(o.userStates, r.From) = DELIVERY_INFO
              /\ CartOf(o.userCarts, r.From) = cart(r)
              /\ PendingOf(o.userCarts, r.From) = PendingOf(userCarts, r.From)
              /\ o.calls = <<>>
              /\ o.orders = orders

\* the delivery question has just been answered with something else than 1
\* or 2: the session is still in DELIVERY_INFO with its cart
C8_Witness ==
    /\ last = "delivery_info"
    /\ \E p \in Phones :
          /\ StateOf(userStates, p) = DELIVERY_INFO
          /\ CartOf(userCarts, p) # <<>>

----------------------------------------------------------------------------
(* C9 *)

\* C9: in PAYMENT_METHOD with delivery chosen and no address pending, any
\* text that is not empty and not a command, the texts 1 and 2 included, is
\* recorded as the pending address (as the handler reads the text: trimmed
\* and in lower case) and not taken as a payment choice: the session stays
\* in PAYMENT_METHOD, the reply is the payment prompt, the cart and the
\* pending delivery type are as they were and no order is stored.
C9_AddressStep ==
    \A q \in Requests, env \in Envs :
        /\ userState(q) = PAYMENT_METHOD
        /\ deliveryType(q) = "delivery"
        /\ NoAddress(q)
        /\ Trim(ToLowerCase(q.Body)) \notin Commands \cup {<<>>}
        => \E o \in {Webhook(Locals(q), env)} :
              /\ Has(o.userCarts, Key(q.From, "_address"))
              /\ o.userCarts[Key(q.From, "_address")] = Trim(ToLowerCase(q.Body))
              /\ Has(o.userCarts, Key(q.From, "_delivery"))
              /\ o.userCarts[Key(q.From, "_delivery")] = "delivery"
              /\ StateOf(o.userStates, q.From) = PAYMENT_METHOD
              /\ Len(o.out) = 1
              /\ o.out[1].tpl = "METODO DE PAGO"
              /\ CartOf(o.userCarts, q.From) = cart(q)
              /\ o.orders = orders
              /\ o.calls = <<>>

\* the text 1 has just been recorded as the address of a delivery: the
\* session is still in PAYMENT_METHOD and no order of the customer is stored
C9_Witness ==
    /\ last = "address"
    /\ \E p \in Phones :
          /\ Has(userCarts, Key(p, "_address"))
          /\ userCarts[Key(p, "_address")] = <<"1">>
          /\ StateOf(userStates, p) = PAYMENT_METHOD
          /\ CartOf(userCarts, p) # <<>>
          /\ Placed(orders) = 0

----------------------------------------------------------------------------
(* C10 *)

\* the rows of phone in the sheet
RowsOf(rows, phone) == {i \in 1..Len(rows) : rows[i].phone = phone}

\* the sheet once the most recent order of phone carries the payment-received
\* marker
Marked(rows, phone) ==
    LET i == CHOOSE i \in RowsOf(rows, phone) : \A j \in RowsOf(rows, phone) : j <= i
    IN  [rows EXCEPT ![i].K = "PAGO_RECIBIDO"]

UpdateCalls(o) == {i \in 1..Len(o.calls) : o.calls[i].fn = "updateOrderStatus"}

ProofTexts(o) == {i \in 1..Len(o.out) : o.out[i].tpl = "Comprobante recibido"}

\* C10: a call carrying an image, whatever its text, triggers the update of
\* the sender's most recent order to the payment-received marker, the
\* confirmation text and the move to MAIN_MENU if and only if the session is
\* in PAYMENT_CONFIRMATION; an image received in any other state triggers no
\* update of an order.
C10_ImageProof ==
    \A r \in Inbound, env \in Envs :
        IsImage(r) =>
            \E o \in {Webhook(r, env)} :
                IF userState(r) = PAYMENT_CONFIRMATION
                THEN /\ Len(o.calls) = 1
                     /\ UpdateCalls(o) = {1}
                     /\ o.orders = IF env.ok /\ RowsOf(orders, r.From) # {}
                                   THEN Marked(orders, r.From)
                                   ELSE orders
                     /\ o.out = <<Text("Comprobante recibido")>>
                     /\ StateOf(o.userStates, r.From) = MAIN_MENU
                ELSE /\ UpdateCalls(o) = {}
                     /\ SubSeq(o.orders, 1, Len(orders)) = orders
                     /\ ProofTexts(o) = {}

\* a proof of payment has just been received: the order of the sender carries
\* the marker and the session is back in MAIN_MENU
C10_Witness ==
    /\ last = "comprobante"
    /\ \E p \in Phones :
          /\ RowsOf(orders, p) # {}
          /\ \A i \in RowsOf(orders, p) : orders[i].K = "PAGO_RECIBIDO"
          /\ \A i \in RowsOf(orders, OtherPhone) : orders[i].K = ""
          /\ StateOf(userStates, p) = MAIN_MENU

----------------------------------------------------------------------------
(* C11 *)

\* the most recent row of phone in rows
MostRecent(rows, phone) ==
    CHOOSE i \in RowsOf(rows, phone) : \A j \in RowsOf(rows, phone) : j <= i

\* C11: after updateOrderStatus(phone, s) returns true, the status of the
\* most recent order of that phone, as the list of the panel reads it back, is
\* s, every other field of that order and every other order are as before;
\* and it returns false exactly when no order has that phone.
C11_StatusReadBack ==
    \A phone \in AdminPhones, s \in AdminStatuses :
        \E u \in {updateOrderStatus(orders, WhatsApp(phone), s, TRUE)} :
            /\ u.found <=> RowsOf(orders, WhatsApp(phone)) # {}
            /\ u.found =>
                  LET i == MostRecent(orders, WhatsApp(phone))
                      before == ApiOrders(orders, TRUE).body
                      after == ApiOrders(u.rows, TRUE).body
                  IN  /\ after[i].status = s
                      /\ after = [before EXCEPT ![i].status = s]

----------------------------------------------------------------------------
(* C12 *)

\* C12: the status update of the panel sends exactly one notification to the
\* customer if and only if updateOrderStatus found a matching order and the
\* status is one of PREPARANDO, LISTO, EN_DELIVERY, ENTREGADO, FINALIZADO,
\* CANCELADO; when no order has the phone it answers not-found and sends
\* none, and for an unknown status on a matching order it answers success
\* and sends none.
C12_Notification ==
    \A phone \in AdminPhones \cup {"+5492"},
       status \in {"PREPARANDO", "LISTO", "EN_DELIVERY", "ENTREGADO", "FINALIZADO",
                   "CANCELADO", "DEMORADO", "NUEVO", ""},
       callOk \in BOOLEAN :
        \E a \in {ApiStatus(phone, status, callOk)} :
            LET found == a.calls[1].ok
                known == status \in {"PREPARANDO", "LISTO", "EN_DELIVERY",
                                     "ENTREGADO", "FINALIZADO", "CANCELADO"}
                matching == RowsOf(orders, WhatsApp(phone)) # {}
            IN  /\ Len(a.calls) = 1
                /\ callOk => (found <=> matching)
                /\ found => matching
                /\ Len(a.out) <= 1
                /\ Len(a.out) = 1 <=> found /\ known
                /\ Len(a.out) = 1 => a.out[1].to = WhatsApp(phone)
                /\ ~matching => a.code = 404 /\ a.out = <<>>
                /\ found /\ ~known => a.code = 200 /\ a.out = <<>>
                /\ found => a.code = 200

\* the panel has set the last order of the customer to PREPARANDO, and
\* setting it once more notifies the customer again
C12_Witness ==
    \E p \in Phones :
        /\ RowsOf(orders, p) # {}
        /\ orders[MostRecent(orders, p)].K = "PREPARANDO"
        /\ ApiStatus("+5491", "PREPARANDO", TRUE).out # <<>>
        /\ ApiStatus("+5491", "DEMORADO", TRUE).out = <<>>
        /\ ApiStatus("+5490", "PREPARANDO", TRUE).code = 404

----------------------------------------------------------------------------
(* C13 *)

\* the text-only calls that carry a command
TextCommands == {r \in Inbound : ~IsImage(r) /\ message(r) \in Commands}

\* what a command does to the session state: the state it sets, "" when it
\* leaves the state alone; a function of the command and of the cart
SetsState(m, c) ==
    IF m \in {m_menu, m_menu2} THEN BROWSING_PRODUCTS
    ELSE IF m = m_limpiar THEN MAIN_MENU
    ELSE IF m = m_cancelar /\ c # <<>> THEN MAIN_MENU
    ELSE IF m = m_finalizar /\ c # <<>> THEN DELIVERY_INFO
    ELSE ""

\* the cart a command leaves: a function of the command and of the cart
LeavesCart(m, c) == IF m \in {m_limpiar, m_cancelar} THEN <<>> ELSE c

\* C13, as the code has it: for a text-only call whose trimmed, case-folded
\* text is menu, menu', carrito, limpiar, cancelar or finalizar, the change
\* of the session state (set to a given state, or left as it is), the cart
\* left and the gateway calls are a function of the command and of the cart
\* only, the same in every session state: menu always ends in
\* BROWSING_PRODUCTS with the cart unchanged after one catalog read, limpiar
\* in MAIN_MENU with the cart empty, cancelar and finalizar with lines in the
\* cart in MAIN_MENU and DELIVERY_INFO; carrito, and cancelar and finalizar
\* with the cart empty, leave the session in the state it was in.
C13_CommandsFirst ==
    \A r \in TextCommands, env \in Envs :
        \E o \in {Webhook(r, env)} :
            /\ StateOf(o.userStates, r.From) =
                  IF SetsState(message(r), cart(r)) = "" THEN userState(r)
                  ELSE SetsState(message(r), cart(r))
            /\ CartOf(o.userCarts, r.From) = LeavesCart(message(r), cart(r))
            /\ o.calls = IF message(r) \in {m_menu, m_menu2}
                         THEN <<Call("getMenu", env.ok)>> ELSE <<>>
            /\ o.orders = orders

\* a carrito has just been answered in the middle of a checkout, and the
\* session is still at the payment step
C13_Witness ==
    /\ last = "carrito"
    /\ \E p \in Phones :
          /\ StateOf(userStates, p) = PAYMENT_METHOD
          /\ CartOf(userCarts, p) # <<>>

\* the state, the cart and the calls a command ends with
Result(r, env) ==
    [state |-> StateOf(Webhook(r, env).userStates, r.From),
     cart |-> CartOf(Webhook(r, env).userCarts, r.From),
     calls |-> Webhook(r, env).calls]

\* C13 as written: the resulting session state, cart and gateway calls of a
\* text-only command are a function of the command and of the cart only:
\* across a step that keeps the cart, whatever it does to the session state,
\* the same command ends with the same state, cart and calls.
C13_AsWritten ==
    [][\A r \in TextCommands, env \in Envs :
          cart(r)' = cart(r) => Result(r, env)' = Result(r, env)]_vars

----------------------------------------------------------------------------
(* C16 *)

\* the append of the call fails / returns
AppendFails == [ok |-> FALSE, rows |-> <<>>]

AppendReturns == [ok |-> TRUE, rows |-> <<>>]

Templates(o) == {o.out[n].tpl : n \in 1..Len(o.out)}

\* C16: when the append to the sheet fails during a finalization, the failure
\* does not reach the handler: the cart is emptied, the session and the
\* pending fields end as in the successful case, the same texts are sent, the
\* order confirmation among them and no apology, and the sheet holds no row
\* for that checkout.
C16_AppendFails ==
    \A r \in Inbound :
        PayStep(r) /\ message(r) \in {<<"1">>, <<"2">>} =>
            \E bad \in {Webhook(r, AppendFails)}, good \in {Webhook(r, AppendReturns)} :
                /\ bad.calls = <<Call("saveOrder", FALSE)>>
                /\ CartOf(bad.userCarts, r.From) = <<>>
                /\ bad.userCarts = good.userCarts
                /\ bad.userStates = good.userStates
                /\ bad.out = good.out
                /\ "PEDIDO CONFIRMADO" \in Templates(bad)
                /\ "Hubo un error" \notin Templates(bad)
                /\ bad.orders = orders
                /\ Len(good.orders) = Len(orders) + 1

\* a cash finalization has just ended after its append failed: the session
\* is reset, the cart empty, and the sheet has no order of the customer
C16_Witness ==
    /\ last = "efectivo"
    /\ failed
    /\ Placed(orders) = 0
    /\ \E p \in Phones :
          /\ Has(userCarts, Key(p, ""))
          /\ userCarts[Key(p, "")] = <<>>
          /\ NoPending(userCarts, p)
          /\ StateOf(userStates, p) = MAIN_MENU

----------------------------------------------------------------------------
(* C20 *)

RECURSIVE Strings(_)
\* productId.toString() of every id, in order
Strings(ids) ==
    IF ids = <<>> THEN <<>> ELSE <<ToString(Head(ids))>> \o Strings(Tail(ids))

\* C20: when the read of the catalog fails during a product selection,
\* whatever the sheet holds, getMenu yields the empty catalog, the cart is
\* left as it was, every id parsed from the message is reported as not
\* found and none as added, the state becomes BROWSING_PRODUCTS, and the
\* only text sent is the reply of the selection, not the apology.
C20_CatalogReadFails ==
    \A r \in Inbound, rows \in MenuSheets :
        Branch(r) = "selection" =>
            /\ getMenu(FALSE, rows) = <<>>
            /\ \E o \in {Selection(r, FALSE, rows)} :
                  /\ CartOf(o.userCarts, r.From) = cart(r)
                  /\ PendingOf(o.userCarts, r.From) = PendingOf(userCarts, r.From)
                  /\ StateOf(o.userStates, r.From) = BROWSING_PRODUCTS
                  /\ o.orders = orders
                  /\ Len(o.out) = 1
                  /\ o.out[1].tpl = "Productos"
                  /\ o.out[1].added = <<>>
                  /\ o.out[1].notFound = Strings(productIds(message(r)))
                  /\ o.calls = <<Call("getMenu", FALSE)>>

\* a selection has just been served with the catalog out of reach, by a
\* customer who had a product in the cart: the cart still holds it
C20_Witness ==
    /\ last = "selection"
    /\ failed
    /\ \E p \in Phones :
          /\ CartOf(userCarts, p) # <<>>
          /\ StateOf(userStates, p) = BROWSING_PRODUCTS

----------------------------------------------------------------------------
(* C19 *)

\* what C19 says of the outcome o of a cancelar on call r
CancelarEffect(r, o) ==
    IF cart(r) # <<>>
    THEN /\ CartOf(o.userCarts, r.From) = <<>>
         /\ StateOf(o.userStates, r.From) = MAIN_MENU
         /\ o.orders = orders
    ELSE /\ o.userStates = userStates
         /\ o.userCarts = userCarts
         /\ o.orders = orders
         /\ OrderCalls(o.calls) = {}

\* C19, as the code has it: in every session state, a cancelar that is not
\* an image received in PAYMENT_CONFIRMATION empties a cart that has lines
\* and sets the state to MAIN_MENU; with an empty cart it leaves the state,
\* the cart and the sheet of orders as they were, in PAYMENT_CONFIRMATION
\* too.
C19_CancelarWithoutProof ==
    \A r \in Inbound, env \in Envs :
        /\ message(r) = m_cancelar
        /\ ~(IsImage(r) /\ userState(r) = PAYMENT_CONFIRMATION)
        => /\ Branch(r) = "cancelar"
           /\ CancelarEffect(r, Webhook(r, env))

\* a text cancelar has just been answered in PAYMENT_CONFIRMATION, where the
\* cart is empty: the session is still there and the order of the customer
\* carries no mark
C19_Witness ==
    /\ last = "cancelar"
    /\ \E p \in Phones :
          /\ CartOf(userCarts, p) = <<>>
          /\ StateOf(userStates, p) = PAYMENT_CONFIRMATION
          /\ \E i \in 1..Len(orders) : orders[i].phone = p /\ orders[i].K = ""

\* C19 as written: every cancelar event has that effect (an image with the
\* caption cancelar included).
C19_AsWritten ==
    \A r \in Inbound, env \in Envs :
        message(r) = m_cancelar => CancelarEffect(r, Webhook(r, env))

----------------------------------------------------------------------------
(* C18 *)

\* the texts of the messages, as received
RawTexts == {q.Body : q \in Requests}

\* C18: when the address step of PAYMENT_METHOD serves a request, the
\* pending address it records is the Body of the request as received, and
\* the address of every order of a customer in the sheet is a text as
\* received (or empty, for a pickup).
C18_RawAddress ==
    [][ /\ \A q \in Requests :
              Branch(Locals(q)) = "address" /\ WebhookAddress(Locals(q)) =>
                  userCarts'[Key(q.From, "_address")] = q.Body
        /\ \A i \in 1..Len(orders') :
              orders'[i].phone \in Phones =>
                  orders'[i].address \in RawTexts \cup {<<>>}
      ]_vars

----------------------------------------------------------------------------
(* C17 *)

\* latest instant of the clocks considered
MaxTick == 1

\* what Date.now() may return at the two readings of one call: the clock
\* does not go back
Clocks == {c \in [1..2 -> 0..MaxTick] : c[1] <= c[2]}

\* orderId.slice(-6) of the id a text shows, lines 141, 285, 308, 493
Shown(text, clock) == clock[text.orderId] % 1000000

\* C17: in an online-payment finalization, whatever the clock returns at
\* its readings, the order id of the payment link and transfer instructions
\* is the order id of the order confirmation, the one processOrder assigned.
C17_OneOrderId ==
    \A r \in Inbound, env \in Envs :
        Branch(r) = "mercadopago" =>
            \E o \in {Webhook(r, env)} :
                /\ Len(o.out) = 2
                /\ o.out[1].tpl = "PAGAR CON MERCADOPAGO"
                /\ o.out[2].tpl = "PEDIDO CONFIRMADO"
                /\ \A clock \in Clocks :
                      Shown(o.out[1], clock) = Shown(o.out[2], clock)

----------------------------------------------------------------------------
(* C14 *)

\* handler h has sent n acknowledgements
Acked(h, n) == handlers[h].acks = n

\* C14: when every external call eventually returns or fails, every call to
\* /webhook, whatever its text and its media and whichever of its external
\* calls fail, is acknowledged exactly once: never twice, not before its
\* last await, and always in the end.
C14_AcknowledgedOnce ==
    /\ [](\A h \in Slots :
            /\ handlers[h].acks <= 1
            /\ handlers[h].pc = "awaiting" => Acked(h, 0)
            /\ handlers[h].pc = "done" => Acked(h, 1))
    /\ \A h \in Slots :
          (handlers[h].pc = "awaiting") ~> (handlers[h].pc = "done" /\ Acked(h, 1))

\* two calls have been acknowledged, one of them a cash checkout whose
\* append failed: the sheet has no order
C14_Witness ==
    /\ \A h \in Slots : handlers[h].pc = "done" /\ Acked(h, 1)
    /\ \E h \in Slots : handlers[h].branch = "efectivo"
    /\ orders = <<>>

----------------------------------------------------------------------------
(* C15 *)

\* the session of customer p, as C15 compares it
Session(p) == [state |-> StateOf(userStates, p), cart |-> CartOf(userCarts, p)]

\* the lines that the selection of handler h adds to the lines base
Selected(h, base) ==
    AddProducts([cart |-> base, added |-> <<>>, notFound |-> <<>>],
                handlers[h].menu, ProductIds[message(handlers[h].r)]).cart

\* the session after the selection of handler h and then limpiar
SelectionThenLimpiar == [state |-> MAIN_MENU, cart |-> <<>>]

\* the session after limpiar and then the selection of handler h
LimpiarThenSelection(h) == [state |-> BROWSING_PRODUCTS, cart |-> Selected(h, <<>>)]

\* handler sel has served a selection and handler lim a limpiar of the same
\* customer, and both have returned
SelectionAndLimpiar(sel, lim) ==
    /\ handlers[sel].pc = "done" /\ handlers[sel].branch = "selection"
    /\ handlers[lim].pc = "done" /\ handlers[lim].branch = "limpiar"
    /\ handlers[sel].r.From = handlers[lim].r.From

\* C15: a selection and a limpiar of the same customer that do not overlap
\* end in the session of their order of arrival; when the limpiar arrives
\* while the selection awaits the catalog, with lines in the cart, the cart
\* it cleared comes back with the selection added to it, and the session
\* they end in is the result of neither order.
C15_LostUpdate ==
    \A sel \in Slots, lim \in Slots :
        SelectionAndLimpiar(sel, lim) =>
            \E p \in {handlers[sel].r.From} :
                /\ sel = 1 /\ handlers[lim].met = "none" =>
                      Session(p) = SelectionThenLimpiar
                /\ lim = 1 /\ handlers[sel].met = "none" =>
                      Session(p) = LimpiarThenSelection(sel)
                /\ sel = 1 /\ handlers[lim].met = "getMenu" /\ handlers[sel].seen # <<>> =>
                      /\ Session(p).cart = Selected(sel, handlers[sel].seen)
                      /\ Session(p) # SelectionThenLimpiar
                      /\ Session(p) # LimpiarThenSelection(sel)

\* the customer had a pizza in the cart and sent 1 and then limpiar; the
\* limpiar was served while the selection awaited the catalog: both calls
\* have returned, and the cart holds the pizza and the empanada
C15_Witness ==
    /\ SelectionAndLimpiar(1, 2)
    /\ handlers[2].met = "getMenu"
    /\ handlers[1].seen = <<PizzaLine>>
    /\ Len(CartOf(userCarts, handlers[1].r.From)) = 2
    /\ Session(handlers[1].r.From) # SelectionThenLimpiar
    /\ Session(handlers[1].r.From) # LimpiarThenSelection(1)


(* C21 *)

\* the states in which a text that is no command is neither a delivery
\* choice nor a payment step
Idling == {MAIN_MENU, BROWSING_PRODUCTS, PAYMENT_CONFIRMATION}

\* a text without media that is no command and no list of product numbers
FreeText(r) ==
    /\ ~IsImage(r)
    /\ message(r) \notin Commands
    /\ ~IsSelection(message(r))

\* C21: in MAIN_MENU, BROWSING_PRODUCTS and PAYMENT_CONFIRMATION a text
\* without media that is no command and not made of digits, commas and
\* whitespace is answered with the welcome alone: the state becomes
\* MAIN_MENU, the cart and the pending fields stay, nothing is read from or
\* written to the sheet; and once the welcome has been sent, no image of the
\* customer is taken as a proof of payment or updates an order.
C21_Welcome ==
    /\ \A r \in Inbound, env \in Envs :
          FreeText(r) /\ userState(r) \in Idling =>
              \E o \in {Webhook(r, env)} :
                  /\ Branch(r) = "welcome"
                  /\ o.out = <<[Text("Hola") EXCEPT !.name = customerName(r)]>>
                  /\ StateOf(o.userStates, r.From) = MAIN_MENU
                  /\ o.userCarts = userCarts
                  /\ o.orders = orders
                  /\ o.calls = <<>>
    /\ last = "welcome" =>
          \A r \in Inbound, env \in Envs :
              IsImage(r) =>
                  /\ userState(r) = MAIN_MENU
                  /\ Branch(r) # "comprobante"
                  /\ UpdateCalls(Webhook(r, env)) = {}

\* the customer paid online, the order waits for its proof of payment, and
\* the last message was answered with the welcome: the state is MAIN_MENU
\* and the order is still unmarked
C21_Witness ==
    /\ last = "welcome"
    /\ \E p \in Phones :
          /\ StateOf(userStates, p) = MAIN_MENU
          /\ CartOf(userCarts, p) = <<>>
          /\ \E i \in RowsOf(orders, p) :
                /\ orders[i].paymentMethod = "mercadopago"
                /\ orders[i].K = ""


(* C22 *)

\* the rows of os other than row i, and row i without its column K
Besides(os, i) == [j \in DOMAIN os |-> IF j = i THEN [os[j] EXCEPT !.K = ""] ELSE os[j]]

\* C22: a status update of the panel changes no session: in every step in
\* which a row takes a status sent by the panel, the states, the carts and
\* the pending fields of all customers are what they were, and the sheet
\* differs in column K of one row of that phone alone; an update that finds
\* no order or whose call fails leaves the sheet as it was and notifies
\* nobody; a notification goes to the phone of the request only.
C22_AdminFrame ==
    [][\A phone \in AdminPhones, status \in AdminStatuses, callOk \in BOOLEAN :
          \E o \in {ApiStatus(phone, status, callOk)} :
              /\ \A n \in DOMAIN o.out : o.out[n].to = WhatsApp(phone)
              /\ o.code # 200 => o.orders = orders /\ o.out = <<>>
              /\ orders' = o.orders /\ orders' # orders =>
                    /\ userStates' = userStates
                    /\ userCarts' = userCarts
                    /\ \E i \in RowsOf(orders, WhatsApp(phone)) :
                          /\ orders'[i].K = status
                          /\ Besides(orders', i) = Besides(orders, i)]_vars

\* the customer waits in PAYMENT_CONFIRMATION for the proof of payment to be
\* sent, and the panel has set the order to PREPARANDO
C22_Witness ==
    \E p \in Phones :
        /\ StateOf(userStates, p) = PAYMENT_CONFIRMATION
        /\ \E i \in RowsOf(orders, p) : orders[i].K = "PREPARANDO"


----------------------------------------------------------------------------
(* The basic variant, src/server.js: the same two maps and the sheet        *)
(* "Pedidos" with columns A to H; three states, no payment step. Its        *)
(* definitions carry the prefix basic_ where the name is also one of the    *)
(* extended variant.                                                        *)

\* STATES, lines 33-37
basic_STATES == {MAIN_MENU, DELIVERY_INFO, CONFIRMING_ORDER}

\* req.body of the calls to /webhook of the basic variant; HasBody is
\* whether the field Body is there at all
basic_Requests ==
    { [Body |-> b, HasBody |-> TRUE, From |-> f, ProfileName |-> n] :
        b \in Bodies, f \in Phones, n \in ProfileNames }
    \cup
    { [Body |-> <<>>, HasBody |-> FALSE, From |-> f, ProfileName |-> n] :
        f \in Phones, n \in ProfileNames }

\* lines 200-203; thrown is the TypeError of Body.toLowerCase() on a call
\* without Body, raised before the try of line 211
basic_Locals(q) ==
    [From |-> q.From,
     thrown |-> ~q.HasBody,
     message |-> IF q.HasBody THEN Trim(ToLowerCase(q.Body)) ELSE <<>>,
     customerName |-> IF q.ProfileName # "" THEN q.ProfileName ELSE "Cliente"]

basic_Inbound == {basic_Locals(q) : q \in basic_Requests}

\* /^\d+$/.test(message), line 257
IsNumber(m) == Len(m) >= 1 /\ \A i \in 1..Len(m) : m[i] \in Digits

\* getMenu(), lines 41-65
basic_getMenu(readOk, rows) ==
    IF ~readOk THEN <<>>
    ELSE IF rows = <<>> THEN <<>>
    ELSE SelectAvailable(rows)

\* the row saveOrder builds, lines 70-79 (column A, the time stamp, left out)
basic_OrderRow(orderData) ==
    [phone |-> orderData.customerPhone,
     customerName |-> orderData.customerName,
     items |-> orderData.items,
     total |-> orderData.total,
     deliveryType |-> orderData.deliveryType,
     address |-> orderData.address,
     status |-> "NUEVO"]

\* saveOrder(orderData), lines 68-90: a failed append is logged and swallowed
basic_saveOrder(rows, orderData, appendOk) ==
    IF appendOk THEN Append(rows, basic_OrderRow(orderData)) ELSE rows

\* formatMenu(menu), lines 93-114
formatMenu(menu) ==
    [i \in 1..Len(menu) |->
        [id |-> menu[i].id, name |-> menu[i].name, price |-> menu[i].price]]

\* formatCart(cart), lines 117-140
basic_formatCart(lines) ==
    IF Len(lines) = 0 THEN [empty |-> TRUE, lines |-> <<>>, total |-> 0]
    ELSE [empty |-> FALSE,
          lines |-> [i \in 1..Len(lines) |->
                       [name |-> lines[i].name, quantity |-> lines[i].quantity,
                        price |-> lines[i].price,
                        subtotal |-> lines[i].price * lines[i].quantity]],
          total |-> SumSubtotals(lines)]

\* the branch of lines 211-299 that serves call r
basic_Branch(r) ==
    IF r.thrown THEN "throws"
    ELSE IF message(r) = m_menu \/ message(r) = m_menu2 THEN "menu"
    ELSE IF message(r) = m_carrito THEN "carrito"
    ELSE IF message(r) = m_limpiar THEN "limpiar"
    ELSE IF message(r) = m_finalizar THEN "finalizar"
    ELSE IF userState(r) = DELIVERY_INFO THEN "delivery_info"
    ELSE IF userState(r) = CONFIRMING_ORDER THEN "confirming_order"
    ELSE IF IsNumber(message(r)) THEN "selection"
    ELSE "welcome"

\* line 201 on a call without Body: the handler rejects before it has read
\* or written anything, and sends neither a reply nor a status
basic_Throws(r) == Outcome(userStates, userCarts, orders, <<>>, <<>>)

\* lines 212-216
basic_Menu(r, readOk, rows) ==
    Outcome(MapSet(userStates, r.From, MAIN_MENU), userCarts, orders,
            <<[Text("MENU DISPONIBLE") EXCEPT
                 !.menu = formatMenu(basic_getMenu(readOk, rows))]>>,
            <<Call("getMenu", readOk)>>)

\* lines 218-220
basic_Carrito(r) ==
    Outcome(userStates, userCarts, orders,
            <<[Text("TU CARRITO") EXCEPT !.cart = <<basic_formatCart(cart(r))>>]>>,
            <<>>)

\* lines 222-225
basic_Limpiar(r) ==
    Outcome(MapSet(userStates, r.From, MAIN_MENU),
            MapSet(userCarts, Key(r.From, ""), <<>>), orders,
            <<Text("Carrito vaciado")>>, <<>>)

\* lines 227-239
basic_Finalizar(r) ==
    IF Len(cart(r)) = 0
    THEN Outcome(userStates, userCarts, orders, <<Text("Carrito vacio")>>, <<>>)
    ELSE Outcome(MapSet(userStates, r.From, DELIVERY_INFO), userCarts, orders,
                 <<Text("TIPO DE ENTREGA")>>, <<>>)

\* processOrder without line 173: the cart is left as it was
basic_processOrderWithoutLine173(phone, name, items, delivery, address, appendOk) ==
    LET total == ReduceTotal(items, 0)
        orderData == [customerPhone |-> phone, customerName |-> name,
                      items |-> items, total |-> total,
                      deliveryType |-> delivery, address |-> address]
    IN  Outcome(MapSet(userStates, phone, MAIN_MENU),
                userCarts,
                basic_saveOrder(orders, orderData, appendOk),
                <<Text("PEDIDO CONFIRMADO")>>,
                <<Call("saveOrder", appendOk)>>)

\* processOrder(phone, customerName, cart, deliveryType, address = ''),
\* lines 157-196
basic_processOrder(phone, name, items, delivery, address, appendOk) ==
    LET total == ReduceTotal(items, 0)
        orderData == [customerPhone |-> phone,
                      customerName |-> name,
                      items |-> items,
                      total |-> total,
                      deliveryType |-> delivery,
                      address |-> address]
        confirmMessage ==
            [Text("PEDIDO CONFIRMADO") EXCEPT
               !.items = [i \in 1..Len(items) |->
                            [name |-> items[i].name,
                             quantity |-> items[i].quantity,
                             subtotal |-> items[i].price * items[i].quantity]],
               !.total = total,
               !.deliveryType = IF delivery = "delivery" THEN "delivery" ELSE "retiro",
               !.address = IF delivery = "delivery" THEN address ELSE <<>>]
    IN  Outcome(MapSet(userStates, phone, MAIN_MENU),
                MapSet(userCarts, Key(phone, ""), <<>>),
                basic_saveOrder(orders, orderData, appendOk),
                <<confirmMessage>>,
                <<Call("saveOrder", appendOk)>>)

\* lines 241-251
basic_DeliveryInfo(r, appendOk) ==
    IF message(r) = <<"1">>
    THEN Outcome(MapSet(userStates, r.From, CONFIRMING_ORDER), userCarts, orders,
                 <<Text("Envia tu direccion")>>, <<>>)
    ELSE IF message(r) = <<"2">>
    THEN basic_processOrder(r.From, customerName(r), cart(r), "pickup", <<>>, appendOk)
    ELSE Outcome(userStates, userCarts, orders,
                 <<Text("Opcion no valida: delivery o retiro")>>, <<>>)

\* lines 253-254
basic_ConfirmingOrder(r, appendOk) ==
    basic_processOrder(r.From, customerName(r), cart(r), "delivery", message(r), appendOk)

\* lines 257-287: one product by its number
basic_Selection(r, readOk, rows) ==
    LET menu == basic_getMenu(readOk, rows)
        hits == {i \in 1..Len(menu) : /\ ParseInt(menu[i].id) # NaN
                                      /\ ParseInt(menu[i].id) = ParseInt(message(r))}
    IN  IF hits # {}
        THEN LET product == menu[CHOOSE i \in hits : \A j \in hits : i <= j]
                 e == FindLine(cart(r), product.id)
                 items == IF e # 0
                          THEN [cart(r) EXCEPT ![e].quantity = @ + 1]
                          ELSE Append(cart(r),
                                      [id |-> product.id, name |-> product.name,
                                       price |-> product.price,
                                       available |-> product.available,
                                       quantity |-> 1])
             IN  Outcome(userStates, MapSet(userCarts, Key(r.From, ""), items), orders,
                         <<[Text("agregado al carrito") EXCEPT
                              !.added = <<product.name>>,
                              !.total = IF e # 0 THEN items[e].quantity ELSE 1]>>,
                         <<Call("getMenu", readOk)>>)
        ELSE Outcome(userStates, userCarts, orders,
                     <<Text("Producto no encontrado")>>,
                     <<Call("getMenu", readOk)>>)

\* lines 290-298
basic_Welcome(r) ==
    Outcome(MapSet(userStates, r.From, MAIN_MENU), userCarts, orders,
            <<[Text("Hola") EXCEPT !.name = customerName(r)]>>, <<>>)

\* the handler of POST /webhook, lines 199-307, on call r when the
\* spreadsheet behaves as env says
basic_Webhook(r, env) ==
    CASE basic_Branch(r) = "throws" -> basic_Throws(r)
      [] basic_Branch(r) = "menu" -> basic_Menu(r, env.ok, env.rows)
      [] basic_Branch(r) = "carrito" -> basic_Carrito(r)
      [] basic_Branch(r) = "limpiar" -> basic_Limpiar(r)
      [] basic_Branch(r) = "finalizar" -> basic_Finalizar(r)
      [] basic_Branch(r) = "delivery_info" -> basic_DeliveryInfo(r, env.ok)
      [] basic_Branch(r) = "confirming_order" -> basic_ConfirmingOrder(r, env.ok)
      [] basic_Branch(r) = "selection" -> basic_Selection(r, env.ok, env.rows)
      [] OTHER -> basic_Welcome(r)

\* what the Sheets call of branch b may meet
basic_EnvsOf(b) ==
    IF b \in {"menu", "selection"} THEN Envs
    ELSE IF b \in {"delivery_info", "confirming_order"}
    THEN {[ok |-> TRUE, rows |-> <<>>], [ok |-> FALSE, rows |-> <<>>]}
    ELSE {[ok |-> TRUE, rows |-> <<>>]}

\* one call served by the branch named b
basic_Serve(r, b) ==
    /\ basic_Branch(r) = b
    /\ \E env \in basic_EnvsOf(b) :
         \E o \in {basic_Webhook(r, env)} :
            /\ WithinBounds(o)
            /\ userStates' = o.userStates
            /\ userCarts' = o.userCarts
            /\ orders' = o.orders
            /\ last' = b
            /\ failed' = ~env.ok
            /\ UNCHANGED <<handlers, heap>>

basic_WebhookThrows(r) ==
    /\ r.thrown
    /\ basic_Serve(r, "throws")

basic_WebhookMenu(r) ==
    /\ ~r.thrown
    /\ basic_Serve(r, "menu")

basic_WebhookCarrito(r) ==
    /\ ~r.thrown
    /\ basic_Serve(r, "carrito")

basic_WebhookLimpiar(r) ==
    /\ ~r.thrown
    /\ basic_Serve(r, "limpiar")

basic_WebhookFinalizar(r) ==
    /\ ~r.thrown
    /\ basic_Serve(r, "finalizar")

basic_WebhookDeliveryInfo(r) ==
    /\ ~r.thrown
    /\ basic_Serve(r, "delivery_info")

basic_WebhookConfirmingOrder(r) ==
    /\ ~r.thrown
    /\ basic_Serve(r, "confirming_order")

basic_WebhookSelection(r) ==
    /\ ~r.thrown
    /\ basic_Serve(r, "selection")

basic_WebhookWelcome(r) ==
    /\ ~r.thrown
    /\ basic_Serve(r, "welcome")

\* the process has just started: both maps and the sheet are empty
BasicInit ==
    /\ userStates = EmptyMap
    /\ userCarts = EmptyMap
    /\ orders = <<>>
    /\ last = "none"
    /\ failed = FALSE
    /\ handlers = [h \in Slots |-> Idle]
    /\ heap = [d \in Slots |-> <<>>]

BasicNext ==
    \E r \in basic_Inbound :
        \/ basic_WebhookThrows(r)
        \/ basic_WebhookMenu(r)
        \/ basic_WebhookCarrito(r)
        \/ basic_WebhookLimpiar(r)
        \/ basic_WebhookFinalizar(r)
        \/ basic_WebhookDeliveryInfo(r)
        \/ basic_WebhookConfirmingOrder(r)
        \/ basic_WebhookSelection(r)
        \/ basic_WebhookWelcome(r)

BasicSpec == BasicInit /\ [][BasicNext]_vars

(* C23 *)

\* the commands of the basic variant
BasicCommands == {m_menu, m_menu2, m_carrito, m_limpiar, m_finalizar}

\* a call with a Body that is none of the commands
BasicText(r) == ~r.thrown /\ message(r) \notin BasicCommands

\* the outcome stores one order of the cart of r, of the given delivery
\* type and address, when the append returns and none when it fails, and
\* leaves the customer with an empty cart in MAIN_MENU
StoresOne(o, r, env, delivery, address) ==
    /\ env.ok =>
          /\ Len(o.orders) = Len(orders) + 1
          /\ SubSeq(o.orders, 1, Len(orders)) = orders
          /\ \E row \in {o.orders[Len(o.orders)]} :
                /\ row.phone = r.From
                /\ row.items = cart(r)
                /\ row.deliveryType = delivery
                /\ row.address = address
    /\ ~env.ok => o.orders = orders
    /\ Len(o.calls) = 1
    /\ CartOf(o.userCarts, r.From) = <<>>
    /\ StateOf(o.userStates, r.From) = MAIN_MENU

\* C23: in the basic variant, in DELIVERY_INFO the text 1 moves the session
\* to CONFIRMING_ORDER and stores nothing; in CONFIRMING_ORDER, where the
\* customer only gets by that step, the next text that is no command stores
\* one delivery order with that text (as the handler reads it) as address
\* and leaves an empty cart in MAIN_MENU; in DELIVERY_INFO the text 2 stores
\* one pickup order without address, with the same session after it; any
\* other text that is no command leaves the state, the cart and the sheet
\* as they were.
C23_BasicCheckout ==
    /\ \A r \in basic_Inbound, env \in Envs :
          BasicText(r) =>
              \E o \in {basic_Webhook(r, env)} :
                  /\ userState(r) = DELIVERY_INFO /\ message(r) = <<"1">> =>
                        /\ StateOf(o.userStates, r.From) = CONFIRMING_ORDER
                        /\ o.userCarts = userCarts
                        /\ o.orders = orders
                        /\ o.calls = <<>>
                  /\ userState(r) = DELIVERY_INFO /\ message(r) = <<"2">> =>
                        StoresOne(o, r, env, "pickup", <<>>)
                  /\ userState(r) = DELIVERY_INFO /\ message(r) \notin {<<"1">>, <<"2">>} =>
                        /\ o.userStates = userStates
                        /\ o.userCarts = userCarts
                        /\ o.orders = orders
                        /\ o.calls = <<>>
                  /\ userState(r) = CONFIRMING_ORDER =>
                        StoresOne(o, r, env, "delivery", message(r))
    /\ \A p \in Phones :
          StateOf(userStates, p) = CONFIRMING_ORDER =>
              /\ last \in {"delivery_info", "carrito", "throws"}
              /\ CartOf(userCarts, p) # <<>>

\* the customer chose delivery and then sent "Av 1": the order is stored
\* with that address, the cart is empty and the state MAIN_MENU
C23_Witness ==
    /\ last = "confirming_order"
    /\ ~failed
    /\ \E p \in Phones :
          /\ StateOf(userStates, p) = MAIN_MENU
          /\ CartOf(userCarts, p) = <<>>
          /\ RowsOf(orders, p) # {}
          /\ \A i \in RowsOf(orders, p) :
                /\ orders[i].deliveryType = "delivery"
                /\ orders[i].address = <<"a", "v", " ", "1">>
                /\ orders[i].items # <<>>


(* C24 *)

\* C24: with the calls of a customer served one at a time, a session in
\* DELIVERY_INFO or PAYMENT_METHOD has a cart with at least one line, and
\* every order of a customer in the sheet has at least one item line, each
\* of quantity 1 or more.
C24_CheckoutHasItems ==
    /\ \A p \in Phones :
          StateOf(userStates, p) \in {DELIVERY_INFO, PAYMENT_METHOD} =>
              Len(CartOf(userCarts, p)) >= 1
    /\ \A r \in Inbound, env \in Envs :
          PayStep(r) /\ message(r) \in {<<"1">>, <<"2">>} =>
              \A i \in DOMAIN Appended(Webhook(r, env).orders) :
                  Len(Appended(Webhook(r, env).orders)[i].items) >= 1
    /\ \A i \in 1..Len(orders) :
          orders[i].phone \in Phones =>
              /\ Len(orders[i].items) >= 1
              /\ \A n \in 1..Len(orders[i].items) : orders[i].items[n].quantity >= 1

\* the customer has gone through both steps of the checkout and paid in
\* cash: the order in the sheet has the lines the cart had
C24_Witness ==
    /\ last = "efectivo"
    /\ ~failed
    /\ \E p \in Phones :
          /\ CartOf(userCarts, p) = <<>>
          /\ \E i \in RowsOf(orders, p) :
                /\ Len(orders[i].items) = 2
                /\ orders[i].total = Sigma(orders[i].items)


(* C25 *)

\* the customer p has just chosen delivery and been asked for the address:
\* the next message of p is the reply to that prompt
AddressAsked(p) ==
    /\ last = "delivery_info"
    /\ StateOf(userStates, p) = PAYMENT_METHOD
    /\ Has(userCarts, Key(p, "_delivery"))
    /\ userCarts[Key(p, "_delivery")] = "delivery"

\* C25: every pickup order of a customer in the sheet has an empty address,
\* and the reply to the address prompt of a checkout is recorded as its
\* address and stores no order, so that a delivery order carries the
\* address sent in that same checkout and never one left by a checkout
\* that was abandoned.
C25_AddressOfCheckout ==
    [][ /\ \A i \in 1..Len(orders') :
              orders'[i].phone \in Phones /\ orders'[i].deliveryType = "pickup" =>
                  orders'[i].address = <<>>
        /\ \A p \in Phones :
              AddressAsked(p) /\ last' # "delivery_info" =>
                  /\ Placed(orders') = Placed(orders)
                  /\ last' \in {"address", "menu", "carrito", "limpiar",
                                "cancelar", "finalizar"}
      ]_vars


(* C26 *)

\* C26: however the calls of a customer interleave, one passage of a cart
\* through PAYMENT_METHOD stores at most one order. A behaviour has two
\* calls of the customer at most and so one checkout at most: the sheet
\* never holds two orders of the customer, and no two of its rows list the
\* lines of one cart.
C26_OneOrderPerCheckout ==
    \A p \in Phones :
        /\ Cardinality(RowsOf(orders, p)) <= 1
        /\ \A i \in RowsOf(orders, p), j \in RowsOf(orders, p) :
              orders[i].items = orders[j].items => i = j


----------------------------------------------------------------------------
(* The bot restarted with orders of the customer in the sheet: the maps are *)
(* empty again (they live in the process, lines 30-31) and the sheet holds  *)
(* what was appended before.                                                *)

\* an order the customer placed and paid in cash before the restart
EarlierOrder ==
    OrderRow([customerPhone |-> "whatsapp:+5491", customerName |-> "Ana",
              items |-> <<[id |-> <<"1">>, name |-> "Empanada", price |-> 10,
                           available |-> TRUE, quantity |-> 1]>>,
              total |-> 10, deliveryType |-> "pickup", address |-> <<>>,
              paymentMethod |-> "efectivo", paymentStatus |-> "Confirmado"])

\* the bounds of Spec, counting the orders placed since the restart
WithinBoundsAgain(o) ==
    /\ Placed(o.orders) <= MaxOrders + Len(<<EarlierOrder>>)
    /\ \A k \in DOMAIN o.userCarts :
          k[2] = "" =>
             /\ \A i \in 1..Len(o.userCarts[k]) : o.userCarts[k][i].quantity <= MaxQty
             /\ Placed(o.orders) = MaxOrders + Len(<<EarlierOrder>>) =>
                    o.userCarts[k] = <<>>

\* one call to /webhook served from entry to acknowledgement, lines 326-577
WebhookAgain(r) ==
    \E env \in EnvsOf(Branch(r)) :
        \E o \in {Webhook(r, env)} :
            /\ WithinBoundsAgain(o)
            /\ userStates' = o.userStates
            /\ userCarts' = o.userCarts
            /\ orders' = o.orders
            /\ last' = Branch(r)
            /\ failed' = ~env.ok
            /\ UNCHANGED <<handlers, heap>>

RestartInit ==
    /\ userStates = EmptyMap
    /\ userCarts = EmptyMap
    /\ orders = <<EarlierOrder>>
    /\ last = "none"
    /\ failed = FALSE
    /\ handlers = [h \in Slots |-> Idle]
    /\ heap = [d \in Slots |-> <<>>]

RestartNext == \E r \in Inbound : WebhookAgain(r)

RestartSpec == RestartInit /\ [][RestartNext]_vars

(* C27 *)

\* C27: with the calls served one at a time, the image sent as proof of
\* payment right after the online payment step marks the order which that
\* step stored, the last row of the sheet; when the append of that order
\* failed there is no such row, and the image marks no order: no earlier
\* order of the phone is marked.
C27_ProofMarksItsOrder ==
    \A r \in Inbound, env \in SheetUp :
        /\ IsImage(r)
        /\ userState(r) = PAYMENT_CONFIRMATION
        /\ last = "mercadopago"
        => \E o \in {Webhook(r, env)} :
              /\ UpdateCalls(o) = {1}
              /\ o.orders = IF failed THEN orders
                            ELSE [orders EXCEPT ![Len(orders)].K = "PAGO_RECIBIDO"]

====
